---- MODULE Spec2Model ----
(***************************************************************************)
(* A model of the MGNREGA district dashboard: the district registry and    *)
(* the performance store kept in SQLite by DatabaseManager                 *)
(* (src/database/database_manager.py, and the earlier variant in           *)
(* src/models.py), and the performance request of src/app.py.              *)
(*                                                                         *)
(* Conventions.  A nullable value (an SQL NULL, a Python None, an absent   *)
(* optional argument) is a sequence of length at most one: None is << >>   *)
(* and a present value v is <<v>>.  Latitudes and longitudes are integers  *)
(* in units of 1e-4 degree, the precision of the reference list.           *)
(* total_expenditure is held in units of 4 rupees: every amount the        *)
(* program computes (days * 280, days * 200..300 at the ends of the range) *)
(* is a multiple of 4, and the unit keeps them inside TLC's integers.      *)
(* A table is a bag of rows: the surrogate id and the timestamps are left  *)
(* out, the districts table is a sequence in rowid order.                  *)
(***************************************************************************)
EXTENDS Integers, Sequences, FiniteSets, Bags, TLC

VARIABLES
  variant,           \* which DatabaseManager the process runs: "database_manager" or "models"
  districts,         \* table districts, in rowid order
  performance_data,  \* table performance_data, a bag of rows
  now,               \* datetime.now(): <<year, month>>
  open_connections,  \* connections to the store that were opened and never closed
  session,           \* session['current_district'] of the browser session, None when unset
  district_data_cache, \* FreshDataService.district_data_cache of app.py
  call               \* the last operation: its name, arguments, return value, whether it raised

vars == <<variant, districts, performance_data, now, open_connections, session,
          district_data_cache, call>>

None == << >>
Some(v) == <<v>>

\* A Python bool handed back to the caller, kept apart from the records
\* other operations return.
PyBool(b) == [bool |-> b]
NULL == None

\* Python truthiness of an optional number: None and 0 are falsy.
Truthy(x) == x # None /\ x[1] # 0

\* dict.get(key) and dict.get(key, default) on a dict modelled as a function.
Get(data, key) == IF key \in DOMAIN data THEN Some(data[key]) ELSE None
GetOr(data, key, default) == IF key \in DOMAIN data THEN data[key] ELSE default

\* The keys a dict binds to None.  TLC cannot hold None beside integers as
\* values of one function, so the function that models a dict lists those
\* keys under its entry "None".
NoneKeys(data) == IF "None" \in DOMAIN data THEN data["None"] ELSE {}

-----------------------------------------------------------------------------
(* The reference list of load_initial_data (identical in both variants).   *)

D(code, name, lat, lon, population, households) ==
  [district_code |-> code, district_name |-> name, latitude |-> lat,
   longitude |-> lon, population |-> population, total_households |-> households]

gujarat_districts ==
  << D("GJ01", "Ahmedabad", <<230225>>, <<725714>>, 7410000, 1200000),
     D("GJ02", "Amreli", <<216000>>, <<712000>>, 1514000, 240000),
     D("GJ03", "Anand", <<225600>>, <<729500>>, 2090000, 330000),
     D("GJ04", "Aravalli", <<235000>>, <<730000>>, 1052000, 170000),
     D("GJ05", "Banaskantha", <<242500>>, <<725000>>, 3120000, 500000),
     D("GJ06", "Bharuch", <<217000>>, <<729667>>, 1550000, 250000),
     D("GJ07", "Bhavnagar", <<217667>>, <<721500>>, 2880000, 460000),
     D("GJ08", "Botad", <<221700>>, <<716700>>, 656000, 105000),
     D("GJ09", "Chhota Udaipur", <<223200>>, <<740000>>, 1072000, 170000),
     D("GJ10", "Dahod", <<228300>>, <<742600>>, 2127000, 340000),
     D("GJ11", "Dang", <<207500>>, <<737500>>, 228000, 36000),
     D("GJ12", "Devbhoomi Dwarka", <<222400>>, <<696500>>, 752000, 120000),
     D("GJ13", "Gandhinagar", <<232200>>, <<726500>>, 1387000, 220000),
     D("GJ14", "Gir Somnath", <<209100>>, <<703700>>, 1217000, 195000),
     D("GJ15", "Jamnagar", <<224700>>, <<700700>>, 2160000, 345000),
     D("GJ16", "Junagadh", <<215200>>, <<704700>>, 2743000, 440000),
     D("GJ17", "Kheda", <<227500>>, <<726833>>, 2299000, 370000),
     D("GJ18", "Kutch", <<237000>>, <<709000>>, 2090000, 335000),
     D("GJ19", "Mahisagar", <<231000>>, <<733500>>, 994000, 160000),
     D("GJ20", "Mehsana", <<236000>>, <<724000>>, 2027000, 325000),
     D("GJ21", "Morbi", <<228200>>, <<708400>>, 961000, 155000),
     D("GJ22", "Narmada", <<218700>>, <<735000>>, 590000, 95000),
     D("GJ23", "Navsari", <<209500>>, <<729300>>, 1331000, 210000),
     D("GJ24", "Panchmahal", <<227500>>, <<736000>>, 2391000, 380000),
     D("GJ25", "Patan", <<238500>>, <<721300>>, 1343000, 215000),
     D("GJ26", "Porbandar", <<216400>>, <<696000>>, 586000, 95000),
     D("GJ27", "Rajkot", <<223000>>, <<707833>>, 3805000, 610000),
     D("GJ28", "Sabarkantha", <<235000>>, <<730000>>, 2428000, 390000),
     D("GJ29", "Surat", <<211700>>, <<728300>>, 6081000, 970000),
     D("GJ30", "Surendranagar", <<227200>>, <<716500>>, 1756000, 280000),
     D("GJ31", "Tapi", <<211200>>, <<734000>>, 807000, 130000),
     D("GJ32", "Vadodara", <<223000>>, <<732000>>, 4165000, 665000),
     D("GJ33", "Valsad", <<203800>>, <<729000>>, 1705000, 270000) >>

-----------------------------------------------------------------------------
(* Distances.  calculate_distance is the Haversine formula and models.py   *)
(* uses the planar distance; both need real arithmetic, so each is         *)
(* tabulated, from the source formula, for the query points and centroids  *)
(* of the model: Haversine in metres, the planar distance in 1e-6 degree.  *)
(* Rounding to these units neither merges nor reorders two distances of    *)
(* the same query point.                                                   *)

HaversineMetres ==
  <<230000, 725000, 0, 725000>> :> 2557483 @@ <<230000, 725000, 203800, 729000>> :> 294247 @@ <<230000, 725000, 207500, 737500>> :> 281475
  @@ <<230000, 725000, 209100, 703700>> :> 319772 @@ <<230000, 725000, 209500, 729300>> :> 232221 @@ <<230000, 725000, 211000, 728000>> :> 213520
  @@ <<230000, 725000, 211200, 734000>> :> 228695 @@ <<230000, 725000, 211700, 728300>> :> 206308 @@ <<230000, 725000, 215200, 704700>> :> 265931
  @@ <<230000, 725000, 216000, 712000>> :> 205231 @@ <<230000, 725000, 216400, 696000>> :> 334434 @@ <<230000, 725000, 217000, 729667>> :> 152313
  @@ <<230000, 725000, 217667, 721500>> :> 141779 @@ <<230000, 725000, 218700, 735000>> :> 162330 @@ <<230000, 725000, 221700, 716700>> :> 125614
  @@ <<230000, 725000, 222400, 696500>> :> 304483 @@ <<230000, 725000, 223000, 707833>> :> 192593 @@ <<230000, 725000, 223000, 732000>> :> 105917
  @@ <<230000, 725000, 223200, 740000>> :> 171485 @@ <<230000, 725000, 224700, 700700>> :> 256079 @@ <<230000, 725000, 225600, 729500>> :> 67247
  @@ <<230000, 725000, 227200, 716500>> :> 92490 @@ <<230000, 725000, 227500, 726833>> :> 33547 @@ <<230000, 725000, 227500, 736000>> :> 116073
  @@ <<230000, 725000, 228200, 708400>> :> 171196 @@ <<230000, 725000, 228300, 742600>> :> 181246 @@ <<230000, 725000, 230000, 0>> :> 7333767
  @@ <<230000, 725000, 230000, 726000>> :> 10236 @@ <<230000, 725000, 230225, 725714>> :> 7724 @@ <<230000, 725000, 231000, 733500>> :> 87678
  @@ <<230000, 725000, 232200, 726500>> :> 28875 @@ <<230000, 725000, 235000, 730000>> :> 75501 @@ <<230000, 725000, 236000, 724000>> :> 67494
  @@ <<230000, 725000, 237000, 709000>> :> 180937 @@ <<230000, 725000, 238500, 721300>> :> 101776 @@ <<230000, 725000, 242500, 725000>> :> 138994
  @@ <<1000, 725000, 0, 725000>> :> 11119 @@ <<1000, 725000, 203800, 729000>> :> 2255453 @@ <<1000, 725000, 207500, 737500>> :> 2300192
  @@ <<1000, 725000, 209100, 703700>> :> 2325513 @@ <<1000, 725000, 209500, 729300>> :> 2318885 @@ <<1000, 725000, 211000, 728000>> :> 2335321
  @@ <<1000, 725000, 211200, 734000>> :> 2339361 @@ <<1000, 725000, 211700, 728300>> :> 2343151 @@ <<1000, 725000, 215200, 704700>> :> 2391960
  @@ <<1000, 725000, 216000, 712000>> :> 2394848 @@ <<1000, 725000, 216400, 696000>> :> 2415711 @@ <<1000, 725000, 217000, 729667>> :> 2402344
  @@ <<1000, 725000, 217667, 721500>> :> 2409526 @@ <<1000, 725000, 218700, 735000>> :> 2423140 @@ <<1000, 725000, 221700, 716700>> :> 2455719
  @@ <<1000, 725000, 222400, 696500>> :> 2481138 @@ <<1000, 725000, 223000, 707833>> :> 2475520 @@ <<1000, 725000, 223000, 732000>> :> 2469691
  @@ <<1000, 725000, 223200, 740000>> :> 2476086 @@ <<1000, 725000, 224700, 700700>> :> 2501304 @@ <<1000, 725000, 225600, 729500>> :> 2497913
  @@ <<1000, 725000, 227200, 716500>> :> 2516910 @@ <<1000, 725000, 227500, 726833>> :> 2518643 @@ <<1000, 725000, 227500, 736000>> :> 2521375
  @@ <<1000, 725000, 228200, 708400>> :> 2532722 @@ <<1000, 725000, 228300, 742600>> :> 2534620 @@ <<1000, 725000, 230000, 0>> :> 8216191
  @@ <<1000, 725000, 230000, 726000>> :> 2546387 @@ <<1000, 725000, 230225, 725714>> :> 2548877 @@ <<1000, 725000, 231000, 733500>> :> 2559133
  @@ <<1000, 725000, 232200, 726500>> :> 2570878 @@ <<1000, 725000, 235000, 730000>> :> 2602521 @@ <<1000, 725000, 236000, 724000>> :> 2613103
  @@ <<1000, 725000, 237000, 709000>> :> 2629876 @@ <<1000, 725000, 238500, 721300>> :> 2641181 @@ <<1000, 725000, 242500, 725000>> :> 2685357
  @@ <<235000, 730000, 0, 725000>> :> 2613639 @@ <<235000, 730000, 203800, 729000>> :> 347081 @@ <<235000, 730000, 207500, 737500>> :> 315391
  @@ <<235000, 730000, 209100, 703700>> :> 395257 @@ <<235000, 730000, 209500, 729300>> :> 283639 @@ <<235000, 730000, 211000, 728000>> :> 267660
  @@ <<235000, 730000, 211200, 734000>> :> 267823 @@ <<235000, 730000, 211700, 728300>> :> 259673 @@ <<235000, 730000, 215200, 704700>> :> 340594
  @@ <<235000, 730000, 216000, 712000>> :> 280711 @@ <<235000, 730000, 216400, 696000>> :> 405746 @@ <<235000, 730000, 217000, 729667>> :> 200180
  @@ <<235000, 730000, 217667, 721500>> :> 211556 @@ <<235000, 730000, 218700, 735000>> :> 188366 @@ <<235000, 730000, 221700, 716700>> :> 201115
  @@ <<235000, 730000, 222400, 696500>> :> 370698 @@ <<235000, 730000, 223000, 707833>> :> 263356 @@ <<235000, 730000, 223000, 732000>> :> 134997
  @@ <<235000, 730000, 223200, 740000>> :> 166451 @@ <<235000, 730000, 224700, 700700>> :> 321047 @@ <<235000, 730000, 225600, 729500>> :> 104648
  @@ <<235000, 730000, 227200, 716500>> :> 163047 @@ <<235000, 730000, 227500, 726833>> :> 89464 @@ <<235000, 730000, 227500, 736000>> :> 103535
  @@ <<235000, 730000, 228200, 708400>> :> 233408 @@ <<235000, 730000, 228300, 742600>> :> 148801 @@ <<235000, 730000, 230000, 0>> :> 7367604
  @@ <<235000, 730000, 230000, 726000>> :> 69001 @@ <<235000, 730000, 230225, 725714>> :> 68820 @@ <<235000, 730000, 231000, 733500>> :> 57061
  @@ <<235000, 730000, 232200, 726500>> :> 47390 @@ <<235000, 730000, 235000, 730000>> :> 0 @@ <<235000, 730000, 236000, 724000>> :> 62163
  @@ <<235000, 730000, 237000, 709000>> :> 215130 @@ <<235000, 730000, 238500, 721300>> :> 96768 @@ <<235000, 730000, 242500, 725000>> :> 97671
  @@ <<230000, 1000, 0, 725000>> :> 8210552 @@ <<230000, 1000, 203800, 729000>> :> 7446593 @@ <<230000, 1000, 207500, 737500>> :> 7518982
  @@ <<230000, 1000, 209100, 703700>> :> 7177525 @@ <<230000, 1000, 209500, 729300>> :> 7430999 @@ <<230000, 1000, 211000, 728000>> :> 7413243
  @@ <<230000, 1000, 211200, 734000>> :> 7472146 @@ <<230000, 1000, 211700, 728300>> :> 7413968 @@ <<230000, 1000, 215200, 704700>> :> 7168537
  @@ <<230000, 1000, 216000, 712000>> :> 7238571 @@ <<230000, 1000, 216400, 696000>> :> 7078376 @@ <<230000, 1000, 217000, 729667>> :> 7410559
  @@ <<230000, 1000, 217667, 721500>> :> 7327573 @@ <<230000, 1000, 218700, 735000>> :> 7457890 @@ <<230000, 1000, 221700, 716700>> :> 7267505
  @@ <<230000, 1000, 222400, 696500>> :> 7065306 @@ <<230000, 1000, 223000, 707833>> :> 7175782 @@ <<230000, 1000, 223000, 732000>> :> 7414625
  @@ <<230000, 1000, 223200, 740000>> :> 7492881 @@ <<230000, 1000, 224700, 700700>> :> 7100064 @@ <<230000, 1000, 225600, 729500>> :> 7381828
  @@ <<230000, 1000, 227200, 716500>> :> 7248699 @@ <<230000, 1000, 227500, 726833>> :> 7349654 @@ <<230000, 1000, 227500, 736000>> :> 7439905
  @@ <<230000, 1000, 228200, 708400>> :> 7165743 @@ <<230000, 1000, 228300, 742600>> :> 7502278 @@ <<230000, 1000, 230000, 0>> :> 10236
  @@ <<230000, 1000, 230000, 726000>> :> 7333767 @@ <<230000, 1000, 230225, 725714>> :> 7330264 @@ <<230000, 1000, 231000, 733500>> :> 7404428
  @@ <<230000, 1000, 232200, 726500>> :> 7331962 @@ <<230000, 1000, 235000, 730000>> :> 7357797 @@ <<230000, 1000, 236000, 724000>> :> 7295917
  @@ <<230000, 1000, 237000, 709000>> :> 7145684 @@ <<230000, 1000, 238500, 721300>> :> 7261977 @@ <<230000, 1000, 242500, 725000>> :> 7286342

EuclidMicroDegrees ==
  <<230000, 725000, 0, 725000>> :> 23000000 @@ <<230000, 725000, 203800, 729000>> :> 2650358 @@ <<230000, 725000, 207500, 737500>> :> 2573908
  @@ <<230000, 725000, 209100, 703700>> :> 2984125 @@ <<230000, 725000, 209500, 729300>> :> 2094612 @@ <<230000, 725000, 211000, 728000>> :> 1923538
  @@ <<230000, 725000, 211200, 734000>> :> 2084322 @@ <<230000, 725000, 211700, 728300>> :> 1859516 @@ <<230000, 725000, 215200, 704700>> :> 2512230
  @@ <<230000, 725000, 216000, 712000>> :> 1910497 @@ <<230000, 725000, 216400, 696000>> :> 3203061 @@ <<230000, 725000, 217000, 729667>> :> 1381235
  @@ <<230000, 725000, 217667, 721500>> :> 1282002 @@ <<230000, 725000, 218700, 735000>> :> 1508940 @@ <<230000, 725000, 221700, 716700>> :> 1173797
  @@ <<230000, 725000, 222400, 696500>> :> 2949593 @@ <<230000, 725000, 223000, 707833>> :> 1853931 @@ <<230000, 725000, 223000, 732000>> :> 989949
  @@ <<230000, 725000, 223200, 740000>> :> 1646937 @@ <<230000, 725000, 224700, 700700>> :> 2487127 @@ <<230000, 725000, 225600, 729500>> :> 629365
  @@ <<230000, 725000, 227200, 716500>> :> 894930 @@ <<230000, 725000, 227500, 726833>> :> 309998 @@ <<230000, 725000, 227500, 736000>> :> 1128051
  @@ <<230000, 725000, 228200, 708400>> :> 1669731 @@ <<230000, 725000, 228300, 742600>> :> 1768191 @@ <<230000, 725000, 230000, 0>> :> 72500000
  @@ <<230000, 725000, 230000, 726000>> :> 100000 @@ <<230000, 725000, 230225, 725714>> :> 74861 @@ <<230000, 725000, 231000, 733500>> :> 855862
  @@ <<230000, 725000, 232200, 726500>> :> 266271 @@ <<230000, 725000, 235000, 730000>> :> 707107 @@ <<230000, 725000, 236000, 724000>> :> 608276
  @@ <<230000, 725000, 237000, 709000>> :> 1746425 @@ <<230000, 725000, 238500, 721300>> :> 927038 @@ <<230000, 725000, 242500, 725000>> :> 1250000
  @@ <<1000, 725000, 0, 725000>> :> 100000 @@ <<1000, 725000, 203800, 729000>> :> 20283944 @@ <<1000, 725000, 207500, 737500>> :> 20687798
  @@ <<1000, 725000, 209100, 703700>> :> 20918724 @@ <<1000, 725000, 209500, 729300>> :> 20854434 @@ <<1000, 725000, 211000, 728000>> :> 21002143
  @@ <<1000, 725000, 211200, 734000>> :> 21039259 @@ <<1000, 725000, 211700, 728300>> :> 21072584 @@ <<1000, 725000, 215200, 704700>> :> 21515978
  @@ <<1000, 725000, 216000, 712000>> :> 21539266 @@ <<1000, 725000, 216400, 696000>> :> 21734341 @@ <<1000, 725000, 217000, 729667>> :> 21605041
  @@ <<1000, 725000, 217667, 721500>> :> 21669527 @@ <<1000, 725000, 218700, 735000>> :> 21792955 @@ <<1000, 725000, 221700, 716700>> :> 22085602
  @@ <<1000, 725000, 222400, 696500>> :> 22322681 @@ <<1000, 725000, 223000, 707833>> :> 22266276 @@ <<1000, 725000, 223000, 732000>> :> 22211033
  @@ <<1000, 725000, 223200, 740000>> :> 22270573 @@ <<1000, 725000, 224700, 700700>> :> 22501595 @@ <<1000, 725000, 225600, 729500>> :> 22464508
  @@ <<1000, 725000, 227200, 716500>> :> 22635965 @@ <<1000, 725000, 227500, 726833>> :> 22650742 @@ <<1000, 725000, 227500, 736000>> :> 22676695
  @@ <<1000, 725000, 228200, 708400>> :> 22780562 @@ <<1000, 725000, 228300, 742600>> :> 22798037 @@ <<1000, 725000, 230000, 0>> :> 76030652
  @@ <<1000, 725000, 230000, 726000>> :> 22900218 @@ <<1000, 725000, 230225, 725714>> :> 22922611 @@ <<1000, 725000, 231000, 733500>> :> 23015701
  @@ <<1000, 725000, 232200, 726500>> :> 23120487 @@ <<1000, 725000, 235000, 730000>> :> 23405341 @@ <<1000, 725000, 236000, 724000>> :> 23500213
  @@ <<1000, 725000, 237000, 709000>> :> 23654175 @@ <<1000, 725000, 238500, 721300>> :> 23752882 @@ <<1000, 725000, 242500, 725000>> :> 24150000
  @@ <<235000, 730000, 0, 725000>> :> 23505319 @@ <<235000, 730000, 203800, 729000>> :> 3121602 @@ <<235000, 730000, 207500, 737500>> :> 2850439
  @@ <<235000, 730000, 209100, 703700>> :> 3691206 @@ <<235000, 730000, 209500, 729300>> :> 2550961 @@ <<235000, 730000, 211000, 728000>> :> 2408319
  @@ <<235000, 730000, 211200, 734000>> :> 2413379 @@ <<235000, 730000, 211700, 728300>> :> 2336193 @@ <<235000, 730000, 215200, 704700>> :> 3212678
  @@ <<235000, 730000, 216000, 712000>> :> 2617250 @@ <<235000, 730000, 216400, 696000>> :> 3875513 @@ <<235000, 730000, 217000, 729667>> :> 1800308
  @@ <<235000, 730000, 217667, 721500>> :> 1930500 @@ <<235000, 730000, 218700, 735000>> :> 1704963 @@ <<235000, 730000, 221700, 716700>> :> 1880904
  @@ <<235000, 730000, 222400, 696500>> :> 3579120 @@ <<235000, 730000, 223000, 707833>> :> 2520666 @@ <<235000, 730000, 223000, 732000>> :> 1216553
  @@ <<235000, 730000, 223200, 740000>> :> 1546739 @@ <<235000, 730000, 224700, 700700>> :> 3105769 @@ <<235000, 730000, 225600, 729500>> :> 941329
  @@ <<235000, 730000, 227200, 716500>> :> 1559134 @@ <<235000, 730000, 227500, 726833>> :> 814125 @@ <<235000, 730000, 227500, 736000>> :> 960469
  @@ <<235000, 730000, 228200, 708400>> :> 2264509 @@ <<235000, 730000, 228300, 742600>> :> 1427060 @@ <<235000, 730000, 230000, 0>> :> 73001712
  @@ <<235000, 730000, 230000, 726000>> :> 640312 @@ <<235000, 730000, 230225, 725714>> :> 641642 @@ <<235000, 730000, 231000, 733500>> :> 531507
  @@ <<235000, 730000, 232200, 726500>> :> 448219 @@ <<235000, 730000, 235000, 730000>> :> 0 @@ <<235000, 730000, 236000, 724000>> :> 608276
  @@ <<235000, 730000, 237000, 709000>> :> 2109502 @@ <<235000, 730000, 238500, 721300>> :> 937763 @@ <<235000, 730000, 242500, 725000>> :> 901388
  @@ <<230000, 1000, 0, 725000>> :> 75965518 @@ <<230000, 1000, 203800, 729000>> :> 72847130 @@ <<230000, 1000, 207500, 737500>> :> 73684361
  @@ <<230000, 1000, 209100, 703700>> :> 70301074 @@ <<230000, 1000, 209500, 729300>> :> 72858846 @@ <<230000, 1000, 211000, 728000>> :> 72724824
  @@ <<230000, 1000, 211200, 734000>> :> 73324105 @@ <<230000, 1000, 211700, 728300>> :> 72753019 @@ <<230000, 1000, 215200, 704700>> :> 70385562
  @@ <<230000, 1000, 216000, 712000>> :> 71113782 @@ <<230000, 1000, 216400, 696000>> :> 69513305 @@ <<230000, 1000, 217000, 729667>> :> 72878296
  @@ <<230000, 1000, 217667, 721500>> :> 72060555 @@ <<230000, 1000, 218700, 735000>> :> 73408698 @@ <<230000, 1000, 221700, 716700>> :> 71574813
  @@ <<230000, 1000, 222400, 696500>> :> 69554152 @@ <<230000, 1000, 223000, 707833>> :> 70686766 @@ <<230000, 1000, 223000, 732000>> :> 73103351
  @@ <<230000, 1000, 223200, 740000>> :> 73903128 @@ <<230000, 1000, 224700, 700700>> :> 69972007 @@ <<230000, 1000, 225600, 729500>> :> 72851329
  @@ <<230000, 1000, 227200, 716500>> :> 71550548 @@ <<230000, 1000, 227500, 726833>> :> 72583731 @@ <<230000, 1000, 227500, 736000>> :> 73500425
  @@ <<230000, 1000, 228200, 708400>> :> 70740229 @@ <<230000, 1000, 228300, 742600>> :> 74160195 @@ <<230000, 1000, 230000, 0>> :> 100000
  @@ <<230000, 1000, 230000, 726000>> :> 72500000 @@ <<230000, 1000, 230225, 725714>> :> 72471403 @@ <<230000, 1000, 231000, 733500>> :> 73250068
  @@ <<230000, 1000, 232200, 726500>> :> 72550334 @@ <<230000, 1000, 235000, 730000>> :> 72901715 @@ <<230000, 1000, 236000, 724000>> :> 72302490
  @@ <<230000, 1000, 237000, 709000>> :> 70803460 @@ <<230000, 1000, 238500, 721300>> :> 72035015 @@ <<230000, 1000, 242500, 725000>> :> 72410790

calculate_distance(lat1, lon1, lat2, lon2) == HaversineMetres[<<lat1, lon1, lat2, lon2>>]

Models_distance(lat, lon, dist_lat, dist_lon) == EuclidMicroDegrees[<<lat, lon, dist_lat, dist_lon>>]

\* The query points of the model: near Ahmedabad (the spec's example), just
\* north of the equator, on the shared centroid of GJ04 and GJ28, just east
\* of the prime meridian.
QueryPoints == {<<230000, 725000>>, <<1000, 725000>>, <<235000, 730000>>, <<230000, 1000>>}

-----------------------------------------------------------------------------
(* find_nearest_district, database_manager.py.                             *)

RECURSIVE ScanNearest(_, _, _, _, _, _)
\* The loop of lines 379-388; min_distance None stands for float('inf').
ScanNearest(rows, i, lat, lon, nearest, min_distance) ==
  IF i > Len(rows) THEN nearest
  ELSE LET district == rows[i]
           dist_lat == district.latitude
           dist_lon == district.longitude
           distance == calculate_distance(lat, lon, dist_lat[1], dist_lon[1])
           closer == /\ Truthy(dist_lat) /\ Truthy(dist_lon)
                     /\ (min_distance = None \/ distance < min_distance[1])
       IN  ScanNearest(rows, i + 1, lat, lon,
                       IF closer THEN Some(district) ELSE nearest,
                       IF closer THEN Some(distance) ELSE min_distance)

\* fault: the store cannot be reached during the call (connect or execute raises).
find_nearest_district(ds, lat, lon, fault) ==
  IF fault THEN None                                  \* except: return None
  ELSE LET rows == SelectSeq(ds, LAMBDA d : d.latitude # NULL /\ d.longitude # NULL)
       IN  IF rows = << >> THEN None
           \* with nearest still None, nearest[1] in the log line raises
           \* TypeError, which the except turns into None
           ELSE ScanNearest(rows, 1, lat, lon, None, None)

(* find_nearest_district, models.py: no WHERE clause, no try/except.       *)

RECURSIVE Models_ScanNearest(_, _, _, _, _, _)
Models_ScanNearest(rows, i, lat, lon, nearest, min_distance) ==
  IF i > Len(rows) THEN nearest
  ELSE LET district == rows[i]
           dist_lat == district.latitude
           dist_lon == district.longitude
           distance == Models_distance(lat, lon, dist_lat[1], dist_lon[1])
           closer == /\ Truthy(dist_lat) /\ Truthy(dist_lon)
                     /\ (min_distance = None \/ distance < min_distance[1])
       IN  Models_ScanNearest(rows, i + 1, lat, lon,
                              IF closer THEN Some(district) ELSE nearest,
                              IF closer THEN Some(distance) ELSE min_distance)

Models_find_nearest_district(ds, lat, lon) ==
  IF ds = << >> THEN None ELSE Models_ScanNearest(ds, 1, lat, lon, None, None)

-----------------------------------------------------------------------------
(* Python's int(x * f) for the float literal f = num/den.  The double      *)
(* product of an integer and a literal such as 0.35 can fall just below    *)
(* the exact product when that is a whole number, and int() then yields    *)
(* one less.  FloatShort lists the operands of the model (the household    *)
(* counts of the registries and what the formulas derive from them) for    *)
(* which CPython does so; everywhere else int(x * f) is the exact floor.   *)

FloatShort ==
  { <<2880, 7, 10>>, <<8200, 3024, 100>>, <<10400, 7, 10>>, <<15400, 3024, 100>>,
    <<16200, 3024, 100>>, <<17000, 3024, 100>>, <<21600, 7, 10>>, <<22400, 7, 10>>,
    <<23400, 7, 10>>, <<30600, 3024, 100>>, <<31400, 3024, 100>>, <<32200, 3024, 100>>,
    <<33000, 3024, 100>>, <<33800, 3024, 100>>, <<34600, 3024, 100>>, <<43200, 7, 10>>,
    <<45000, 7, 10>>, <<61000, 3024, 100>>, <<61800, 3024, 100>>, <<62600, 3024, 100>>,
    <<63400, 3024, 100>>, <<64200, 3024, 100>>, <<65000, 3024, 100>>, <<65800, 3024, 100>>,
    <<66600, 3024, 100>>, <<67400, 3024, 100>>, <<68200, 3024, 100>>, <<69000, 3024, 100>>,
    <<82800, 7, 10>>, <<90000, 7, 10>>, <<174600, 7, 10>>, <<708480, 35, 100>>,
    <<1330560, 35, 100>>, <<1347840, 35, 100>>, <<1399680, 35, 100>>, <<1468800, 35, 100>>,
    <<2643840, 35, 100>>, <<2712960, 35, 100>>, <<2782080, 35, 100>>, <<2799360, 35, 100>>,
    <<2851200, 35, 100>>, <<2903040, 35, 100>>, <<2920320, 35, 100>>, <<2989440, 35, 100>>,
    <<5270400, 35, 100>>, <<5339520, 35, 100>>, <<5408640, 35, 100>>, <<5477760, 35, 100>>,
    <<5546880, 35, 100>>, <<5616000, 35, 100>>, <<5685120, 35, 100>>, <<5754240, 35, 100>>,
    <<5823360, 35, 100>>, <<5892480, 35, 100>>, <<5961600, 35, 100>> }

PyInt(x, num, den) ==
  IF x < 0 THEN -(((-x) * num) \div den)     \* int() truncates toward zero
  ELSE ((x * num) \div den) - (IF <<x, num, den>> \in FloatShort THEN 1 ELSE 0)

-----------------------------------------------------------------------------
(* Rows of performance_data.                                               *)

MetricFields ==
  {"households_provided_employment", "persons_worked", "total_person_days",
   "sc_person_days", "st_person_days", "women_person_days", "total_expenditure",
   "works_taken_up", "works_completed", "avg_days_per_household"}

KeyOf(r) == <<r.district_code, r.year, r.month>>

\* The 14 bound values of the INSERT OR REPLACE statement, from a dict.
InsertValues(data) ==
  [district_code |-> Get(data, "district_code"),
   year |-> Get(data, "year"),
   month |-> Get(data, "month"),
   households_provided_employment |-> GetOr(data, "households_provided_employment", 0),
   persons_worked |-> GetOr(data, "persons_worked", 0),
   total_person_days |-> GetOr(data, "total_person_days", 0),
   sc_person_days |-> GetOr(data, "sc_person_days", 0),
   st_person_days |-> GetOr(data, "st_person_days", 0),
   women_person_days |-> GetOr(data, "women_person_days", 0),
   total_expenditure |-> GetOr(data, "total_expenditure", 0),
   works_taken_up |-> GetOr(data, "works_taken_up", 0),
   works_completed |-> GetOr(data, "works_completed", 0),
   avg_days_per_household |-> GetOr(data, "avg_days_per_household", 0),
   data_source |-> GetOr(data, "data_source", "mock")]

\* The table without the rows of set gone.
Without(table, gone) == [r \in (DOMAIN table) \ gone |-> table[r]]

-----------------------------------------------------------------------------
(* load_initial_data.                                                      *)

\* random.randint / random.uniform, every draw of one seeding taken at the
\* same end of its range.
RandomDraws == {"low", "high"}
Pick(draw, low, high) == IF draw = "low" THEN low ELSE high

\* One sample row, lines 192-220.
SampleRow(district, year, month, draw) ==
  LET households == district.total_households
      base_employment == Pick(draw, PyInt(households, 8, 100), PyInt(households, 18, 100))
      base_persons == Pick(draw, PyInt(base_employment, 15, 10), PyInt(base_employment, 22, 10))
      base_days == Pick(draw, base_persons * 40, base_persons * 60)
  IN  [district_code |-> district.district_code,
       year |-> year,
       month |-> month,
       households_provided_employment |-> base_employment,
       persons_worked |-> base_persons,
       total_person_days |-> base_days,
       sc_person_days |-> Pick(draw, PyInt(base_days, 3, 10), PyInt(base_days, 4, 10)),
       st_person_days |-> Pick(draw, PyInt(base_days, 2, 10), PyInt(base_days, 3, 10)),
       women_person_days |-> Pick(draw, PyInt(base_days, 4, 10), PyInt(base_days, 5, 10)),
       total_expenditure |-> Pick(draw, base_days * 50, base_days * 75),   \* 200, 300 rupees
       works_taken_up |-> Pick(draw, PyInt(base_employment, 7, 10), PyInt(base_employment, 9, 10)),
       works_completed |-> Pick(draw, PyInt(base_employment, 5, 10), PyInt(base_employment, 8, 10)),
       avg_days_per_household |-> Pick(draw, 40, 60),
       data_source |-> "sample"]

\* The period i months before t, lines 186-190.
MonthsBack(t, i) ==
  IF t[2] - i <= 0 THEN <<t[1] - 1, t[2] - i + 12>> ELSE <<t[1], t[2] - i>>

\* The seeding without the row count check of lines 157-163: the reference
\* list is inserted again (INSERT OR IGNORE) and the sample rows are written
\* again (INSERT OR REPLACE).
load_initial_data_Unguarded(ds, table, t, draw) ==
  LET present == {ds[i].district_code : i \in 1..Len(ds)}
      fresh == {SampleRow(gujarat_districts[k], MonthsBack(t, i)[1], MonthsBack(t, i)[2], draw) :
                  k \in 1..Len(gujarat_districts), i \in 0..5}
      stale == {r \in DOMAIN table : \E s \in fresh : KeyOf(s) = KeyOf(r)}
  IN  [districts |-> ds \o SelectSeq(gujarat_districts, LAMBDA d : d.district_code \notin present),
       performance_data |-> Without(table, stale) (+) SetToBag(fresh)]

\* The seeding without its count check: the reference list is inserted after
\* whatever the registry holds, with the sample rows of its districts.
load_initial_data_Appending(ds, table, t, draw) ==
  LET fresh == {SampleRow(gujarat_districts[k], MonthsBack(t, i)[1], MonthsBack(t, i)[2], draw) :
                  k \in 1..Len(gujarat_districts), i \in 0..5}
      stale == {r \in DOMAIN table : \E s \in fresh : KeyOf(s) = KeyOf(r)}
  IN  [districts |-> ds \o gujarat_districts,
       performance_data |-> Without(table, stale) (+) SetToBag(fresh)]

\* database_manager.py: a populated registry is left alone; an empty one gets
\* the reference list and six months of sample rows for every district.
load_initial_data(ds, table, t, draw) ==
  IF Len(ds) > 0 THEN [districts |-> ds, performance_data |-> table]
  ELSE LET fresh == {SampleRow(gujarat_districts[k], MonthsBack(t, i)[1], MonthsBack(t, i)[2], draw) :
                       k \in 1..Len(gujarat_districts), i \in 0..5}
           stale == {r \in DOMAIN table : \E s \in fresh : KeyOf(s) = KeyOf(r)}
       IN  [districts |-> gujarat_districts,
            performance_data |-> Without(table, stale) (+) SetToBag(fresh)]

\* models.py: INSERT OR IGNORE of every reference district, no sample rows.
Models_load_initial_data(ds, table) ==
  LET present == {ds[i].district_code : i \in 1..Len(ds)}
  IN  [districts |-> ds \o SelectSeq(gujarat_districts, LAMBDA d : d.district_code \notin present),
       performance_data |-> table]

-----------------------------------------------------------------------------
(* database_manager.py.  In every operation fault says that the store      *)
(* cannot be reached for the length of the call: each connect or execute   *)
(* of the call raises.                                                     *)

get_district_info(ds, district_code, fault) ==
  IF fault THEN None
  ELSE LET rows == SelectSeq(ds, LAMBDA d : d.district_code = district_code)
       IN  IF rows # << >> THEN Some(rows[1]) ELSE None

_get_default_performance_data(ds, t, district_code, fault) ==
  LET district_info == get_district_info(ds, district_code, fault)
      households == IF district_info # None THEN district_info[1].total_households ELSE 200000
      base_employment == PyInt(households, 12, 100)
      base_persons == PyInt(base_employment, 18, 10)
      base_days == base_persons * 48
  IN  [district_code |-> district_code,
       year |-> t[1],
       month |-> t[2],
       households_provided_employment |-> base_employment,
       persons_worked |-> base_persons,
       total_person_days |-> base_days,
       sc_person_days |-> PyInt(base_days, 35, 100),
       st_person_days |-> PyInt(base_days, 25, 100),
       women_person_days |-> PyInt(base_days, 45, 100),
       total_expenditure |-> base_days * 70,            \* 280 rupees
       works_taken_up |-> PyInt(base_employment, 15, 100),
       works_completed |-> PyInt(base_employment, 12, 100),
       avg_days_per_household |-> 48,
       data_source |-> "default"]

\* The ordering with the two sort keys exchanged, month before year: what
\* ORDER BY month DESC, year DESC would select.
LaterOrSame_MonthFirst(r, s) ==
  r.month > s.month \/ (r.month = s.month /\ r.year >= s.year)

\* ORDER BY year DESC, month DESC
LaterOrSame(r, s) == r.year > s.year \/ (r.year = s.year /\ r.month >= s.month)

\* The SELECT of lines 274-288 and fetchone(): the row, or None.
SelectPerformance(table, district_code, year, month) ==
  LET rows == IF Truthy(year) /\ Truthy(month)
              THEN {r \in DOMAIN table : /\ r.district_code = district_code
                                         /\ r.year = year[1] /\ r.month = month[1]}
              ELSE {r \in DOMAIN table : /\ r.district_code = district_code
                                         /\ \A s \in DOMAIN table :
                                              s.district_code = district_code => LaterOrSame(r, s)}
  IN  IF rows = {} THEN None ELSE Some(CHOOSE r \in rows : TRUE)

\* Lines 268-299: the row, else (no row, or the store failed) the default
\* record; the result is never None.
get_performance_data(table, ds, t, district_code, year, month, fault) ==
  IF fault THEN Some(_get_default_performance_data(ds, t, district_code, fault))
  ELSE LET row == SelectPerformance(table, district_code, year, month)
       IN  IF row # None THEN row
           ELSE Some(_get_default_performance_data(ds, t, district_code, fault))

\* The upsert under a table whose UNIQUE constraint names district_code
\* alone: the new row replaces every row of its district.
save_performance_data_PerDistrict(table, data, fault) ==
  LET v == InsertValues(data)
  IN  IF fault \/ v.district_code = NULL \/ v.year = NULL \/ v.month = NULL
      THEN [performance_data |-> table, ret |-> FALSE]
      ELSE LET row == [v EXCEPT !.district_code = @[1], !.year = @[1], !.month = @[1]]
               old == {r \in DOMAIN table : r.district_code = row.district_code}
           IN  [performance_data |-> Without(table, old) (+) SetToBag({row}), ret |-> TRUE]

\* INSERT OR REPLACE under the schema of lines 62-83: district_code, year and
\* month are NOT NULL and have no default, so a NULL aborts the statement;
\* the row holding the same key is replaced.  The foreign key is not
\* enforced: PRAGMA foreign_keys is set on the connection of init_database
\* only.  The other columns accept NULL: data.get(key, 0) hands on the None
\* a key is bound to, and the row then holds no value in that column (the
\* row of the model has no such field).
save_performance_data(table, data, fault) ==
  LET v == InsertValues(data)
  IN  IF \/ fault \/ v.district_code = NULL \/ v.year = NULL \/ v.month = NULL
         \/ NoneKeys(data) \cap {"district_code", "year", "month"} # {}
      THEN [performance_data |-> table, ret |-> FALSE]
      ELSE LET full == [v EXCEPT !.district_code = @[1], !.year = @[1], !.month = @[1]]
               row == IF NoneKeys(data) = {} THEN full
                      ELSE [f \in (DOMAIN full) \ NoneKeys(data) |-> full[f]]
               old == {r \in DOMAIN table : KeyOf(r) = KeyOf(row)}
           IN  [performance_data |-> Without(table, old) (+) SetToBag({row}), ret |-> TRUE]

-----------------------------------------------------------------------------
(* models.py: year and month are nullable, nothing is caught.  A result    *)
(* is [performance_data, ret, raised].                                     *)

\* SQL equality: NULL equals nothing.
SqlEq(a, b) == a # NULL /\ b # NULL /\ a[1] = b[1]

Models_get_performance_data(table, district_code, year, month, fault) ==
  IF fault THEN [ret |-> None, raised |-> TRUE]
  ELSE LET rows == {r \in DOMAIN table : /\ r.district_code = district_code
                                         /\ SqlEq(r.year, year) /\ SqlEq(r.month, month)}
       IN  [ret |-> IF rows = {} THEN None
                    ELSE Some([records |-> <<CHOOSE r \in rows : TRUE>>]),
            raised |-> FALSE]

\* UNIQUE(district_code, year, month) treats NULLs as distinct: a row with a
\* NULL year or month conflicts with no row.
Models_save_performance_data(table, data, fault) ==
  LET v == InsertValues(data)
  IN  IF fault \/ v.district_code = NULL
      THEN [performance_data |-> table, ret |-> None, raised |-> TRUE]
      ELSE LET row == [v EXCEPT !.district_code = @[1]]
               old == {r \in DOMAIN table : /\ r.district_code = row.district_code
                                            /\ SqlEq(r.year, row.year)
                                            /\ SqlEq(r.month, row.month)}
           IN  [performance_data |-> Without(table, old) (+) SetToBag({row}),
                ret |-> None, raised |-> FALSE]

-----------------------------------------------------------------------------
(* app.py, MGNREGADataService, over the DatabaseManager of                 *)
(* database_manager.py.                                                    *)

\* int(district_code[2:]) if district_code[2:].isdigit() else 1
district_number(district_code) ==
  IF \E k \in 1..Len(gujarat_districts) : gujarat_districts[k].district_code = district_code
  THEN CHOOSE k \in 1..Len(gujarat_districts) : gujarat_districts[k].district_code = district_code
  ELSE IF district_code = "GJ99" THEN 99 ELSE 1

\* generate_unique_mock_data, lines 231-260 (the district names copied into
\* the record are left out: save_performance_data ignores them).
generate_unique_mock_data(ds, district_code, year, month, fault) ==
  LET district_info == get_district_info(ds, district_code, fault)
      households_employed == 5000 + (district_number(district_code) * 800)
      persons_worked == PyInt(households_employed, 18, 10)
      total_person_days == persons_worked * 48
  IN  IF district_info = None THEN None
      ELSE Some([records |-> <<
             [district_code |-> district_code,
              year |-> year,
              month |-> month,
              households_provided_employment |-> households_employed,
              persons_worked |-> persons_worked,
              total_person_days |-> total_person_days,
              sc_person_days |-> PyInt(total_person_days, 35, 100),
              st_person_days |-> PyInt(total_person_days, 25, 100),
              women_person_days |-> PyInt(total_person_days, 45, 100),
              total_expenditure |-> total_person_days * 70,      \* 280 rupees
              works_taken_up |-> PyInt(households_employed, 15, 100),
              works_completed |-> PyInt(households_employed, 12, 100),
              avg_days_per_household |-> 48,
              data_source |-> "unique_mock"] >>])

\* _get_unique_fallback_data, lines 262-283: each field is one chain of float
\* products of base_value.  A result is [performance_data, ret].
_get_unique_fallback_data(table, ds, district_code, year, month, fault) ==
  LET district_info == get_district_info(ds, district_code, fault)
      base_value == 5000 + (district_number(district_code) * 800)
      fallback_data ==
        [district_code |-> district_code,
         year |-> year,
         month |-> month,
         households_provided_employment |-> base_value,
         persons_worked |-> PyInt(base_value, 18, 10),
         total_person_days |-> PyInt(base_value, 864, 10),
         sc_person_days |-> PyInt(base_value, 3024, 100),
         st_person_days |-> PyInt(base_value, 216, 10),
         women_person_days |-> PyInt(base_value, 3888, 100),
         total_expenditure |-> base_value * 6048,                \* 1.8 * 48 * 280 rupees
         works_taken_up |-> PyInt(base_value, 15, 100),
         works_completed |-> PyInt(base_value, 12, 100),
         avg_days_per_household |-> 48,
         data_source |-> "unique_fallback"]
  IN  IF district_info = None THEN [performance_data |-> table, ret |-> None]
      ELSE [performance_data |-> save_performance_data(table, fallback_data, fault).performance_data,
            ret |-> Some([records |-> <<fallback_data>>])]

\* The request as it would be with a lookup that answers None when the store
\* holds no record of the key: the record is generated and saved.
get_district_performance_Saving(table, ds, t, district_code, year, month, fault) ==
  LET cached_data == IF fault THEN None
                     ELSE SelectPerformance(table, district_code, Some(year), Some(month))
      mock_data == generate_unique_mock_data(ds, district_code, year, month, fault)
  IN  IF cached_data # None
      THEN [performance_data |-> table, ret |-> Some([records |-> <<cached_data[1]>>])]
      ELSE IF mock_data # None
           THEN [performance_data |-> save_performance_data(table, mock_data[1].records[1], fault).performance_data,
                 ret |-> mock_data]
           ELSE _get_unique_fallback_data(table, ds, district_code, year, month, fault)

\* Lines 212-229.  get_performance_data does not raise, so the except has
\* nothing to catch.  A result is [performance_data, ret].
get_district_performance(table, ds, t, district_code, year, month, fault) ==
  LET cached_data == get_performance_data(table, ds, t, district_code,
                                          Some(year), Some(month), fault)
      mock_data == generate_unique_mock_data(ds, district_code, year, month, fault)
  IN  IF cached_data # None
      THEN [performance_data |-> table, ret |-> Some([records |-> <<cached_data[1]>>])]
      ELSE IF mock_data # None
           THEN [performance_data |-> save_performance_data(table, mock_data[1].records[1], fault).performance_data,
                 ret |-> mock_data]
           ELSE _get_unique_fallback_data(table, ds, district_code, year, month, fault)

-----------------------------------------------------------------------------
(* The bounded inputs.                                                     *)

Variants == {"database_manager", "models"}

\* The spec's two-district example, under codes of the reference list.
SmallRegistry ==
  << D("GJ01", "Ahmedabad", <<230000>>, <<726000>>, 600000, 100000),
     D("GJ02", "Surat", <<211000>>, <<728000>>, 300000, 50000) >>

\* Districts for the nearest-district queries: the two above, one on the
\* equator, one on the prime meridian, one without a centroid, one with
\* half a centroid.
NearestDistricts ==
  { SmallRegistry[1], SmallRegistry[2],
    D("GJ03", "Equator", <<0>>, <<725000>>, 1000, 100),
    D("GJ04", "Meridian", <<230000>>, <<0>>, 1000, 100),
    D("GJ05", "Nowhere", NULL, NULL, 1000, 100),
    D("GJ06", "Halfway", <<230000>>, NULL, 1000, 100) }

\* The districts tables found at construction: empty, or one or two of the
\* districts above in either order.
NearestRegistries ==
  {<< >>} \cup {<<d>> : d \in NearestDistricts}
          \cup {ds \in {<<d, e>> : d \in NearestDistricts, e \in NearestDistricts} :
                  ds[1] # ds[2]}

\* Two districts of the reference list that share a centroid, (23.5, 73.0),
\* in the rowid order of the reference list and in the other one.
TieRegistries ==
  { <<gujarat_districts[4], gujarat_districts[28]>>,
    <<gujarat_districts[28], gujarat_districts[4]>> }

\* Codes asked for: two registered districts and one that is in no registry.
Codes == {"GJ01", "GJ02"}
UnknownCode == "GJ99"

\* (year, month) pairs: a year 0, a month 0, and two ordinary periods that
\* year-then-month order and month-then-year order rank differently.
Periods == {<<0, 12>>, <<2024, 0>>, <<2024, 12>>, <<2025, 1>>}

FullPayload ==
  [households_provided_employment |-> 12000, persons_worked |-> 21600,
   total_person_days |-> 1036800, sc_person_days |-> 362880,
   st_person_days |-> 259200, women_person_days |-> 466560,
   total_expenditure |-> 72576000, works_taken_up |-> 1800,
   works_completed |-> 1440, avg_days_per_household |-> 48, data_source |-> "api"]

\* Leaves out most fields and holds a negative count.
SparsePayload == [households_provided_employment |-> 700, persons_worked |-> -5]

Payloads == {FullPayload, SparsePayload}

KeyFields(code, period) == [district_code |-> code, year |-> period[1], month |-> period[2]]

\* Dicts given to save_performance_data: every key with every payload, and
\* three dicts that lack one part of the key.
SaveInputs ==
  {KeyFields(c, p) @@ pl : c \in Codes, p \in Periods, pl \in Payloads}
  \cup {[year |-> 2024, month |-> 12] @@ FullPayload,
        [district_code |-> "GJ01", month |-> 12] @@ FullPayload,
        [district_code |-> "GJ01", year |-> 2024] @@ FullPayload}

\* Rows the model lets performance_data hold.
MaxRows == 2

\* Connections the model lets stay open.
MaxOpenConnections == 2

ClockStart == <<2024, 12>>
ClockEnd == <<2025, 1>>

-----------------------------------------------------------------------------
(* States after construction.                                              *)

NoCall == [op |-> "init", args |-> << >>, ret |-> None, raised |-> FALSE]

\* DatabaseManager() of database_manager.py over a store found holding ds
\* and table.
Constructed(ds, table) ==
  /\ variant = "database_manager"
  /\ now = ClockStart
  /\ \E draw \in RandomDraws :
       LET s == load_initial_data(ds, table, now, draw)
       IN  districts = s.districts /\ performance_data = s.performance_data
  /\ open_connections = 0
  /\ session = None
  /\ district_data_cache = << >>
  /\ call = NoCall

\* DatabaseManager() of models.py.
Models_Constructed(ds, table) ==
  /\ variant = "models"
  /\ now = ClockStart
  /\ LET s == Models_load_initial_data(ds, table)
     IN  districts = s.districts /\ performance_data = s.performance_data
  /\ open_connections = 0
  /\ session = None
  /\ district_data_cache = << >>
  /\ call = NoCall

\* The application's store: a registry populated by an earlier run (the
\* reference list, or the two-district example) and a performance table
\* emptied by clear_existing_performance_data.
Init == \E ds \in {gujarat_districts, SmallRegistry} : Constructed(ds, EmptyBag)

ModelsInit == \E ds \in {<< >>, SmallRegistry} : Models_Constructed(ds, EmptyBag)

NearestInit ==
  \E ds \in NearestRegistries \cup TieRegistries :
    Constructed(ds, EmptyBag) \/ Models_Constructed(ds, EmptyBag)

-----------------------------------------------------------------------------
(* Operations.                                                             *)

Called(op, args, ret, raised) == [op |-> op, args |-> args, ret |-> ret, raised |-> raised]

\* Under a fault the outcome of a call does not depend on its other
\* arguments, so a faulted call is taken with one representative of them;
\* so is a write on a locked store.
FaultFree(fault, arg, representative) == ~fault \/ arg = representative

\* No operation closes its connection when a statement raises: every
\* conn.close() stands on the path without exception, and there is no
\* finally.  The connection stays open until the garbage collector finds
\* it.  The statement that raises in this model is a write: an INSERT that
\* a NOT NULL constraint rejects leaves the connection inside the
\* transaction sqlite3 began for it, holding the store's write lock, and
\* every write of another connection then fails with "database is locked"
\* and leaves its connection open too.  Reads are not held up by the lock.
Locked == open_connections > 0

\* The connections left open after an operation: one more when a statement
\* failed on a store that could be reached.
LeftOpen(fault, failed) == IF ~fault /\ failed THEN open_connections + 1 ELSE open_connections

SamplePeriod == <<2024, 12>>
SampleData == KeyFields("GJ01", SamplePeriod) @@ FullPayload

\* A write is taken while the table stays within MaxRows.
Fits(table) == table = performance_data \/ BagCardinality(table) <= MaxRows

SavePerformanceData ==
  /\ variant = "database_manager"
  /\ \E data \in SaveInputs, fault \in BOOLEAN :
       LET res == save_performance_data(performance_data, data, fault \/ Locked)
       IN  /\ FaultFree(fault \/ Locked, data, SampleData)
           /\ Fits(res.performance_data)
           /\ performance_data' = res.performance_data
           /\ open_connections' = LeftOpen(fault, ~res.ret)
           /\ open_connections' <= MaxOpenConnections
           /\ call' = Called("save_performance_data", [data |-> data, fault |-> fault \/ Locked],
                             Some(PyBool(res.ret)), FALSE)
  /\ UNCHANGED <<variant, session, district_data_cache, districts, now>>

GetPerformanceData ==
  /\ variant = "database_manager"
  /\ \E code \in Codes \cup {UnknownCode},
        ym \in {<<Some(p[1]), Some(p[2])>> : p \in Periods} \cup {<<None, None>>},
        fault \in BOOLEAN :
       /\ FaultFree(fault, ym, <<None, None>>)
       /\ call' = Called("get_performance_data",
                         [district_code |-> code, year |-> ym[1], month |-> ym[2], fault |-> fault],
                         get_performance_data(performance_data, districts, now, code, ym[1], ym[2], fault),
                         FALSE)
  /\ UNCHANGED <<variant, session, district_data_cache, districts, performance_data, now, open_connections>>

GetDistrictPerformance ==
  /\ variant = "database_manager"
  /\ \E code \in Codes \cup {UnknownCode}, p \in Periods, fault \in BOOLEAN :
       LET res == get_district_performance(performance_data, districts, now, code, p[1], p[2], fault)
       IN  /\ FaultFree(fault, p, SamplePeriod)
           /\ Fits(res.performance_data)
           /\ performance_data' = res.performance_data
           /\ call' = Called("get_district_performance",
                             [district_code |-> code, year |-> p[1], month |-> p[2], fault |-> fault],
                             res.ret, FALSE)
  /\ UNCHANGED <<variant, session, district_data_cache, districts, now, open_connections>>

\* The garbage collector finds connections that were left open and closes
\* them, the newest first; the one holding the write lock is the oldest.
Collect ==
  /\ \E closed \in 1..open_connections : open_connections' = open_connections - closed
  /\ UNCHANGED <<variant, session, district_data_cache, districts, performance_data, now, call>>

\* A month of calendar time passes.
Tick ==
  /\ now # ClockEnd
  /\ now' = IF now[2] = 12 THEN <<now[1] + 1, 1>> ELSE <<now[1], now[2] + 1>>
  /\ UNCHANGED <<variant, session, district_data_cache, districts, performance_data, open_connections, call>>

FindNearestDistrict ==
  /\ variant = "database_manager"
  /\ \E q \in QueryPoints, fault \in BOOLEAN :
       call' = Called("find_nearest_district", [lat |-> q[1], lon |-> q[2], fault |-> fault],
                      find_nearest_district(districts, q[1], q[2], fault), FALSE)
  /\ UNCHANGED <<variant, session, district_data_cache, districts, performance_data, now, open_connections>>

Models_SavePerformanceData ==
  /\ variant = "models"
  /\ \E data \in SaveInputs, fault \in BOOLEAN :
       LET res == Models_save_performance_data(performance_data, data, fault \/ Locked)
       IN  /\ FaultFree(fault \/ Locked, data, SampleData)
           /\ Fits(res.performance_data)
           /\ performance_data' = res.performance_data
           /\ open_connections' = LeftOpen(fault, res.raised)
           /\ open_connections' <= MaxOpenConnections
           /\ call' = Called("save_performance_data", [data |-> data, fault |-> fault \/ Locked],
                             res.ret, res.raised)
  /\ UNCHANGED <<variant, session, district_data_cache, districts, now>>

Models_GetPerformanceData ==
  /\ variant = "models"
  /\ \E code \in Codes \cup {UnknownCode},
        ym \in {<<Some(p[1]), Some(p[2])>> : p \in Periods} \cup {<<None, Some(12)>>},
        fault \in BOOLEAN :
       LET res == Models_get_performance_data(performance_data, code, ym[1], ym[2], fault)
       IN  FaultFree(fault, <<code, ym>>, <<"GJ01", <<None, Some(12)>>>>) /\ call' = Called("get_performance_data",
                          [district_code |-> code, year |-> ym[1], month |-> ym[2], fault |-> fault],
                          res.ret, res.raised)
  /\ UNCHANGED <<variant, session, district_data_cache, districts, performance_data, now, open_connections>>

\* models.py catches nothing: a store failure is raised to the caller.
Models_FindNearestDistrict ==
  /\ variant = "models"
  /\ \E q \in QueryPoints, fault \in BOOLEAN :
       call' = Called("find_nearest_district", [lat |-> q[1], lon |-> q[2], fault |-> fault],
                      IF fault THEN None ELSE Models_find_nearest_district(districts, q[1], q[2]),
                      fault)
  /\ UNCHANGED <<variant, session, district_data_cache, districts, performance_data, now, open_connections>>

-----------------------------------------------------------------------------
(* Specifications.                                                         *)

\* The performance store of database_manager.py.
Next == SavePerformanceData \/ GetPerformanceData \/ Collect
Spec == Init /\ [][Next]_vars

\* The performance request of app.py over that store, as calendar time passes.
RequestNext == SavePerformanceData \/ GetDistrictPerformance \/ Tick \/ Collect
SpecRequest == Init /\ [][RequestNext]_vars

\* The performance store of models.py.
ModelsNext == Models_SavePerformanceData \/ Models_GetPerformanceData \/ Collect
SpecModels == ModelsInit /\ [][ModelsNext]_vars

\* Nearest-district queries of both variants over the bounded registries.
NearestNext == FindNearestDistrict \/ Models_FindNearestDistrict
SpecNearest == NearestInit /\ [][NearestNext]_vars


-----------------------------------------------------------------------------
(* Seeding: DatabaseManager() constructed again over the store it left,    *)
(* and seed_demo of fetcher.py over its own store (variant "fetcher":      *)
(* districts holds the District rows, performance_data the MonthlyMetric   *)
(* rows).                                                                  *)

\* fetcher.py lines 24-26; the ids are the AUTOINCREMENT keys 1, 2, 3.
DemoDistricts ==
  << [id |-> 1, state |-> "Gujarat", district_code |-> "GD-GNR", district_name |-> "Gandhinagar",
      centroid_lat |-> 232156, centroid_lon |-> 726369],
     [id |-> 2, state |-> "Gujarat", district_code |-> "GD-SRT", district_name |-> "Surat",
      centroid_lat |-> 211702, centroid_lon |-> 728311],
     [id |-> 3, state |-> "Gujarat", district_code |-> "GD-PBR", district_name |-> "Porbandar",
      centroid_lat |-> 216417, centroid_lon |-> 696042] >>

\* MonthlyMetric(...) of add_metric, lines 32-36.
MonthlyMetric(district_id, y, m, pdays, hh, wage, ben) ==
  [district_id |-> district_id, year |-> y, month |-> m, person_days |-> pdays,
   households |-> hh, avg_wage |-> wage, beneficiaries |-> ben]

\* Lines 44-46.
DemoMetrics ==
  { MonthlyMetric(1, 2025, 9, 2510000, 58000, 235, 125480),
    MonthlyMetric(2, 2025, 9, 2480000, 62000, 240, 142000),
    MonthlyMetric(3, 2025, 9, 920000, 23000, 210, 45000) }

\* seed_demo, lines 15-47: nothing when a District row exists; a metric that
\* meets a stored one of its district and month is rolled back.
seed_demo(ds, table) ==
  IF Len(ds) > 0 THEN [districts |-> ds, performance_data |-> table]
  ELSE LET added == {mm \in DemoMetrics :
                       ~\E r \in DOMAIN table :
                          <<r.district_id, r.year, r.month>> = <<mm.district_id, mm.year, mm.month>>}
       IN  [districts |-> DemoDistricts, performance_data |-> table (+) SetToBag(added)]

\* The stores before anything was seeded: the two DatabaseManager classes
\* constructed for the first time, and fetcher.py's empty tables.
SeedInit ==
  \/ Constructed(<< >>, EmptyBag)
  \/ Models_Constructed(<< >>, EmptyBag)
  \/ /\ variant = "fetcher"
     /\ now = ClockStart
     /\ districts = << >>
     /\ performance_data = EmptyBag
     /\ open_connections = 0
     /\ session = None
     /\ district_data_cache = << >>
     /\ call = NoCall

\* DatabaseManager(): init_database and load_initial_data over the store as
\* it is; a failing connection makes init_database raise.  On a locked
\* store every INSERT of the seeding fails and is passed over (lines 168-178
\* and 198-222; models.py lines 108-117), so nothing is written.
Construct ==
  /\ variant = "database_manager"
  /\ \E draw \in RandomDraws, fault \in BOOLEAN :
       LET s == IF fault \/ Locked THEN [districts |-> districts, performance_data |-> performance_data]
                ELSE load_initial_data(districts, performance_data, now, draw)
       IN  /\ districts' = s.districts
           /\ performance_data' = s.performance_data
           /\ call' = Called("__init__", [fault |-> fault], None, fault)
  /\ UNCHANGED <<variant, session, district_data_cache, now, open_connections>>

Models_Construct ==
  /\ variant = "models"
  /\ \E fault \in BOOLEAN :
       LET s == IF fault \/ Locked THEN [districts |-> districts, performance_data |-> performance_data]
                ELSE Models_load_initial_data(districts, performance_data)
       IN  /\ districts' = s.districts
           /\ performance_data' = s.performance_data
           /\ call' = Called("__init__", [fault |-> fault], None, fault)
  /\ UNCHANGED <<variant, session, district_data_cache, now, open_connections>>

SeedDemo ==
  /\ variant = "fetcher"
  /\ \E fault \in BOOLEAN :
       LET s == IF fault THEN [districts |-> districts, performance_data |-> performance_data]
                ELSE seed_demo(districts, performance_data)
       IN  /\ districts' = s.districts
           /\ performance_data' = s.performance_data
           /\ call' = Called("seed_demo", [fault |-> fault], None, fault)
  /\ UNCHANGED <<variant, session, district_data_cache, now, open_connections>>

\* app.py, clear_existing_performance_data: DELETE FROM performance_data,
\* True; False when the store cannot be reached or is locked, and on a
\* locked store the connection of line 29 is left open.
ClearPerformanceData ==
  /\ variant = "database_manager"
  /\ \E fault \in BOOLEAN :
       /\ performance_data' = IF fault \/ Locked THEN performance_data ELSE EmptyBag
       /\ open_connections' = LeftOpen(fault, Locked)
       /\ open_connections' <= MaxOpenConnections
       /\ call' = Called("clear_existing_performance_data", [fault |-> fault \/ Locked],
                         Some(PyBool(~(fault \/ Locked))), FALSE)
  /\ UNCHANGED <<variant, session, district_data_cache, districts, now>>

\* Stores seeded, cleared, written to and seeded again.
SeedNext ==
  \/ Construct
  \/ Models_Construct
  \/ SeedDemo
  \/ ClearPerformanceData
  \/ SavePerformanceData
  \/ Collect
SpecSeed == SeedInit /\ [][SeedNext]_vars

-----------------------------------------------------------------------------
(* Comparison: rank, state averages, percent deltas.  A rate is held in    *)
(* tenths of a percent (42.5 is 425), the value round(x, 1) returns.       *)

\* Python round() of the quotient n / d, d > 0: to the nearest integer, a
\* half to the even one.
RoundHalfEven(n, d) ==
  LET q == n \div d
      r == n % d
  IN  IF 2 * r < d THEN q
      ELSE IF 2 * r > d THEN q + 1
      ELSE IF q % 2 = 0 THEN q ELSE q + 1

\* floor(r * 10^digits / d) for 0 <= r < d, one decimal digit at a time.
RECURSIVE Fraction(_, _, _)
Fraction(r, d, digits) ==
  IF digits = 0 THEN 0
  ELSE LET p == (10 * r) \div d
           rest == Fraction((10 * r) % d, d, digits - 1)
           weight == IF digits = 1 THEN 1 ELSE IF digits = 2 THEN 10 ELSE IF digits = 3 THEN 100
                     ELSE IF digits = 4 THEN 1000 ELSE IF digits = 5 THEN 10000 ELSE 100000
       IN  p * weight + rest

\* c * 100.0 / u in millionths of a percent, u # 0, c >= 0, u > 0.
PercentMicro(c, u) == ((100 * c) \div u) * 1000000 + Fraction((100 * c) % u, u, 6)

\* The sum of values[r] over the rows r.
RECURSIVE SumOver(_, _)
SumOver(values, rows) ==
  IF rows = {} THEN 0
  ELSE LET r == CHOOSE r \in rows : TRUE
       IN  values[r] + SumOver(values, rows \ {r})

\* get_default_state_averages, lines 543-553.
get_default_state_averages ==
  [households_provided_employment |-> 12500,
   persons_worked |-> 22500,
   total_person_days |-> 425000,
   works_completed |-> 850,
   women_participation_rate |-> 425,
   works_completion_rate |-> 683,
   expenditure_per_person |-> 275]

\* round(AVG(field) or 0) over rows: AVG leaves NULLs out and is NULL when
\* nothing is left.
AvgField(rows, field) ==
  LET defined == {r \in rows : field \in DOMAIN r}
  IN  IF defined = {} THEN 0
      ELSE RoundHalfEven(SumOver([r \in defined |-> r[field]], defined), Cardinality(defined))

\* The mean in which a row with a zero denominator counts as a ratio of 0.
AvgRate_ZeroCounted(rows, num, den) ==
  RoundHalfEven(SumOver([r \in rows |-> IF r[den] = 0 THEN 0 ELSE PercentMicro(r[num], r[den])], rows),
                100000 * Cardinality(rows))

\* round(AVG(num * 100.0 / NULLIF(den, 0)) or 0, 1), in tenths of a percent:
\* NULLIF makes the ratio of a row with a zero denominator NULL, and AVG
\* leaves NULLs out of both the sum and the count.
AvgRate(rows, num, den) ==
  LET defined == {r \in rows : num \in DOMAIN r /\ den \in DOMAIN r /\ r[den] # 0}
  IN  IF defined = {} THEN 0
      ELSE RoundHalfEven(SumOver([r \in defined |-> PercentMicro(r[num], r[den])], defined),
                         100000 * Cardinality(defined))

\* total_expenditure / NULLIF(persons_worked, 0) in thousandths of a rupee:
\* total_expenditure is a REAL column, so the division is a real one.  The
\* model holds the expenditure in units of 4 rupees.
ExpenditurePerPersonMilli(expenditure, persons) ==
  LET rupees == 4 * expenditure
  IN  (rupees \div persons) * 1000 + Fraction(rupees % persons, persons, 3)

\* round(AVG(total_expenditure / NULLIF(persons_worked, 0)) or 0), rupees.
AvgExpenditurePerPerson(rows) ==
  LET defined == {r \in rows : /\ "total_expenditure" \in DOMAIN r
                               /\ "persons_worked" \in DOMAIN r
                               /\ r.persons_worked # 0}
  IN  IF defined = {} THEN 0
      ELSE RoundHalfEven(SumOver([r \in defined |->
                                    ExpenditurePerPersonMilli(r.total_expenditure, r.persons_worked)],
                                 defined),
                         1000 * Cardinality(defined))

\* calculate_state_averages, lines 465-505: the averages over the rows of
\* the current year and month; the defaults when the first average is NULL
\* (no such row, or none with a households_provided_employment) or the
\* store fails.
calculate_state_averages(table, t, fault) ==
  LET rows == {r \in DOMAIN table : r.year = t[1] /\ r.month = t[2]}
  IN  IF fault \/ ~\E r \in rows : "households_provided_employment" \in DOMAIN r
      THEN get_default_state_averages
      ELSE [households_provided_employment |-> AvgField(rows, "households_provided_employment"),
            persons_worked |-> AvgField(rows, "persons_worked"),
            total_person_days |-> AvgField(rows, "total_person_days"),
            works_completed |-> AvgField(rows, "works_completed"),
            women_participation_rate |-> AvgRate(rows, "women_person_days", "total_person_days"),
            works_completion_rate |-> AvgRate(rows, "works_completed", "works_taken_up"),
            expenditure_per_person |-> AvgExpenditurePerPerson(rows)]

\* The join of lines 517-527: of each district the row whose year is the
\* district's MAX(year) and whose month is the district's MAX(month).
RankedRows(table) ==
  {r \in DOMAIN table :
     \A s \in DOMAIN table : s.district_code = r.district_code =>
                               (s.year <= r.year /\ s.month <= r.month)}

\* calculate_district_rank, lines 507-541.  ORDER BY leaves the order of
\* rows with equal households open, so the result is one of a set: the
\* positions the district's row can take.  (1, 33) when the store fails.
calculate_district_rank(table, ds, district_code, fault) ==
  IF fault THEN {<<1, 33>>}
  ELSE LET total_districts == Len(ds)
           ranked == RankedRows(table)
           mine == {r \in ranked : r.district_code = district_code}
       IN  IF mine = {} THEN {<<total_districts, total_districts>>}
           ELSE LET r == CHOOSE r \in mine : TRUE
                    above == Cardinality({s \in ranked : s.households_provided_employment
                                                           > r.households_provided_employment})
                    level == Cardinality({s \in ranked : s.households_provided_employment
                                                           = r.households_provided_employment})
                IN  {<<rank, total_districts>> : rank \in (above + 1)..(above + level)}

ComparisonMetrics ==
  {"households_provided_employment", "persons_worked", "total_person_days", "works_completed"}

\* The quotient cut off after the first decimal instead of rounded.
PercentDelta_Truncated(district_val, state_val) ==
  LET n == 1000 * (district_val - state_val)
  IN  IF n < 0 THEN -((-n) \div state_val) ELSE n \div state_val

\* round(((district_val - state_val) / state_val) * 100, 1), in tenths.  A
\* difference of more than state_val is split into its whole multiples of
\* state_val and the rest, which keeps the products inside TLC's integers.
PercentDelta(district_val, state_val) ==
  LET difference == district_val - state_val
  IN  IF difference > state_val
      THEN 1000 * (difference \div state_val)
             + RoundHalfEven(1000 * (difference % state_val), state_val)
      ELSE RoundHalfEven(1000 * difference, state_val)

\* _calculate_comparison_percentages, lines 442-463, when it does not raise.
_calculate_comparison_percentages(district_data, state_avg) ==
  [metric \in ComparisonMetrics |->
     IF state_avg[metric] > 0 THEN PercentDelta(district_data[metric], state_avg[metric])
     ELSE 0]

\* Line 458 raises TypeError, None - state_val, when the record holds None
\* under a metric whose state value is positive.
PercentagesRaise(district_data, state_avg) ==
  \E metric \in ComparisonMetrics : state_avg[metric] > 0 /\ metric \notin DOMAIN district_data

\* get_default_comparison_data, lines 555-572; percentages in tenths.
get_default_comparison_data(ds, t, district_code, fault) ==
  [district |-> _get_default_performance_data(ds, t, district_code, fault),
   state_avg |-> get_default_state_averages,
   district_rank |-> 8,
   total_districts |-> 33,
   comparison_type |-> "state",
   comparison_percentages |->
     [households_provided_employment |-> 200,
      persons_worked |-> 244,
      total_person_days |-> 224,
      works_completed |-> 47]]

\* get_comparison_data, lines 409-440: every part answers with its default
\* when the store fails, so the except clause of line 438 is reached only
\* from the percentages, and answers with get_default_comparison_data.
get_comparison_data(table, ds, t, district_code, fault) ==
  LET district_data == get_performance_data(table, ds, t, district_code, None, None, fault)[1]
      state_avg == calculate_state_averages(table, t, fault)
  IN  IF PercentagesRaise(district_data, state_avg)
      THEN {get_default_comparison_data(ds, t, district_code, fault)}
      ELSE {[district |-> district_data,
             state_avg |-> state_avg,
             district_rank |-> rk[1],
             total_districts |-> rk[2],
             comparison_type |-> "state",
             comparison_percentages |-> _calculate_comparison_percentages(district_data, state_avg)] :
              rk \in calculate_district_rank(table, ds, district_code, fault)}

\* models.py, get_comparison_data, lines 226-254: None when the district has
\* no record of the period; nothing is caught.
Models_get_comparison_data(table, t, district_code, year, month, fault) ==
  LET y == IF year = None THEN Some(t[1]) ELSE year
      m == IF month = None THEN Some(t[2]) ELSE month
      district_data == Models_get_performance_data(table, district_code, y, m, fault)
  IN  IF district_data.raised THEN [ret |-> None, raised |-> TRUE]
      ELSE IF district_data.ret = None THEN [ret |-> None, raised |-> FALSE]
      ELSE LET base_data == district_data.ret[1].records[1]
           IN  [ret |-> Some([district |-> base_data,
                              state_avg |->
                                [households_provided_employment |->
                                   PyInt(base_data.households_provided_employment, 85, 100),
                                 persons_worked |-> PyInt(base_data.persons_worked, 88, 100),
                                 total_person_days |-> PyInt(base_data.total_person_days, 90, 100),
                                 women_participation_rate |-> 452,
                                 works_completion_rate |-> 721,
                                 expenditure_per_person |-> 520],
                              district_rank |-> 15,
                              total_districts |-> 33]),
                raised |-> FALSE]

\* app.py, generate_comparison_data, lines 40-105.  The record comes from
\* get_performance_data(district_code, '2024', '1'), which is never falsy,
\* so the branch of lines 46-59 is not taken.
generate_comparison_data(table, ds, t, district_code, fault) ==
  LET performance_data_ == get_performance_data(table, ds, t, district_code, Some(2024), Some(1), fault)[1]
      n == district_number(district_code)
      total_districts == 33
      district_rank ==
        IF district_code = "GJ01" THEN 1
        ELSE IF district_code = "GJ02" THEN 2
        ELSE IF district_code = "GJ03" THEN 3
        ELSE IF district_code = "GJ04" THEN 4
        ELSE IF district_code = "GJ25" THEN 8
        ELSE LET k == IF (n % 15) + 5 > 5 THEN (n % 15) + 5 ELSE 5
             IN  IF k < total_districts THEN k ELSE total_districts
      state_avg ==
        [households_provided_employment |-> 12500,
         persons_worked |-> 22500,
         total_person_days |-> 1080000,
         works_completed |-> 1800,
         women_participation_rate |-> 452,
         works_completion_rate |-> 725,
         expenditure_per_person |-> 13440,
         avg_days_per_household |-> 487]
  IN  [district_rank |-> district_rank,
       total_districts |-> total_districts,
       district |-> performance_data_,
       state_avg |-> state_avg,
       comparison_percentages |->
         [metric \in ComparisonMetrics |-> PercentDelta(performance_data_[metric], state_avg[metric])]]

\* Records and districts of the comparison runs: a registered pair and a
\* code outside the registry, the current month and the next, a full
\* record and one whose person days and persons are zero.
CompareCodes == {"GJ01", "GJ02", UnknownCode}
ComparePeriods == {<<2024, 12>>, <<2025, 1>>}
ThinPayload == [households_provided_employment |-> 700, works_taken_up |-> 3, works_completed |-> 1]
CompareInputs ==
  {KeyFields(code, p) @@ payload :
     code \in CompareCodes, p \in ComparePeriods, payload \in {FullPayload, ThinPayload}}

\* Rows the comparison runs let performance_data hold.
MaxCompareRows == 3

CompareInit == Constructed(SmallRegistry, EmptyBag)

SaveRecord ==
  /\ variant = "database_manager"
  /\ \E data \in CompareInputs :
       LET res == save_performance_data(performance_data, data, Locked)
       IN  /\ BagCardinality(res.performance_data) <= MaxCompareRows
           /\ performance_data' = res.performance_data
           /\ open_connections' = LeftOpen(FALSE, ~res.ret)
           /\ open_connections' <= MaxOpenConnections
           /\ call' = Called("save_performance_data", [data |-> data, fault |-> Locked],
                             Some(PyBool(res.ret)), FALSE)
  /\ UNCHANGED <<variant, session, district_data_cache, districts, now>>

CalculateDistrictRank ==
  /\ variant = "database_manager"
  /\ \E code \in CompareCodes, fault \in BOOLEAN :
       \E rk \in calculate_district_rank(performance_data, districts, code, fault) :
         call' = Called("calculate_district_rank", [district_code |-> code, fault |-> fault],
                        Some([rank |-> rk[1], total_districts |-> rk[2]]), FALSE)
  /\ UNCHANGED <<variant, session, district_data_cache, districts, performance_data, now, open_connections>>

CalculateStateAverages ==
  /\ variant = "database_manager"
  /\ \E fault \in BOOLEAN :
       call' = Called("calculate_state_averages", [fault |-> fault],
                      Some(calculate_state_averages(performance_data, now, fault)), FALSE)
  /\ UNCHANGED <<variant, session, district_data_cache, districts, performance_data, now, open_connections>>

GetComparisonData ==
  /\ variant = "database_manager"
  /\ \E code \in CompareCodes, fault \in BOOLEAN :
       \E res \in get_comparison_data(performance_data, districts, now, code, fault) :
         call' = Called("get_comparison_data", [district_code |-> code, fault |-> fault],
                        Some(res), FALSE)
  /\ UNCHANGED <<variant, session, district_data_cache, districts, performance_data, now, open_connections>>

GenerateComparisonData ==
  /\ variant = "database_manager"
  /\ \E code \in CompareCodes, fault \in BOOLEAN :
       call' = Called("generate_comparison_data", [district_code |-> code, fault |-> fault],
                      Some(generate_comparison_data(performance_data, districts, now, code, fault)),
                      FALSE)
  /\ UNCHANGED <<variant, session, district_data_cache, districts, performance_data, now, open_connections>>

Models_GetComparisonData ==
  /\ variant = "models"
  /\ \E code \in Codes \cup {UnknownCode},
        ym \in {<<Some(p[1]), Some(p[2])>> : p \in Periods} \cup {<<None, None>>},
        fault \in BOOLEAN :
       LET res == Models_get_comparison_data(performance_data, now, code, ym[1], ym[2], fault)
       IN  /\ FaultFree(fault, <<code, ym>>, <<"GJ01", <<None, None>>>>)
           /\ call' = Called("get_comparison_data",
                             [district_code |-> code, year |-> ym[1], month |-> ym[2], fault |-> fault],
                             res.ret, res.raised)
  /\ UNCHANGED <<variant, session, district_data_cache, districts, performance_data, now, open_connections>>

\* The comparison page over a store of a few records.
CompareNext ==
  \/ SaveRecord
  \/ CalculateDistrictRank
  \/ CalculateStateAverages
  \/ GetComparisonData
  \/ GenerateComparisonData
SpecCompare == CompareInit /\ [][CompareNext]_vars

\* The comparison of models.py.
ModelsCompareNext == Models_SavePerformanceData \/ Models_GetComparisonData \/ Collect
SpecModelsCompare == ModelsInit /\ [][ModelsCompareNext]_vars
-----------------------------------------------------------------------------
(* The life of one store of database_manager.py: records written and       *)
(* written again, read, compared, ranked and averaged, the store           *)
(* initialised again by another DatabaseManager(), and cleared by app.py.  *)

StoreNext ==
  \/ CompareNext
  \/ GetPerformanceData
  \/ GetDistrictPerformance
  \/ Construct
  \/ ClearPerformanceData
SpecStore == CompareInit /\ [][StoreNext]_vars

\* Records that bind works_completed to None: the column accepts NULL.
IncompleteInputs ==
  {KeyFields(code, p) @@ [households_provided_employment |-> 700, None |-> {"works_completed"}] :
     code \in CompareCodes, p \in ComparePeriods}

SaveIncompleteRecord ==
  /\ variant = "database_manager"
  /\ \E data \in IncompleteInputs :
       LET res == save_performance_data(performance_data, data, Locked)
       IN  /\ BagCardinality(res.performance_data) <= MaxCompareRows
           /\ performance_data' = res.performance_data
           /\ open_connections' = LeftOpen(FALSE, ~res.ret)
           /\ open_connections' <= MaxOpenConnections
           /\ call' = Called("save_performance_data", [data |-> data, fault |-> Locked],
                             Some(PyBool(res.ret)), FALSE)
  /\ UNCHANGED <<variant, session, district_data_cache, districts, now>>

\* The comparison over a store that also holds incomplete records.
IncompleteNext ==
  \/ SaveRecord
  \/ SaveIncompleteRecord
  \/ CalculateStateAverages
  \/ GetComparisonData
SpecIncomplete == CompareInit /\ [][IncompleteNext]_vars
-----------------------------------------------------------------------------
(* app.py: the start of the process and the routes.  A route's fault is    *)
(* the store out of reach for the whole request.  Templates are outside    *)
(* the source; render_template is taken to return.                         *)

\* get_all_districts, database_manager.py lines 231-245: the code and name
\* of every district, nothing when the store fails.  The order of the list
\* (by district_name) is left out: the model's routes only count it.
get_all_districts(ds, fault) ==
  IF fault THEN {}
  ELSE {[code |-> ds[i].district_code, name |-> ds[i].district_name] : i \in 1..Len(ds)}

\* _generate_fresh_data, app.py lines 299-321: None for a district that is
\* not found.  (The integer forms of the float products hold for GJ01 and
\* GJ02, the districts the model's dashboard shows.)
_generate_fresh_data(ds, district_code, year, month, fault) ==
  LET district_info == get_district_info(ds, district_code, fault)
      n == district_number(district_code)
      households_employed == 5000 + (n * 1000)
      persons_worked == PyInt(households_employed, 30 + n, 20)
      total_person_days == persons_worked * (40 + n)
  IN  IF district_info = None THEN None
      ELSE Some([records |-> <<
             [district_code |-> district_code,
              year |-> year,
              month |-> month,
              households_provided_employment |-> households_employed,
              persons_worked |-> persons_worked,
              total_person_days |-> total_person_days,
              sc_person_days |-> PyInt(total_person_days, 35, 100),
              st_person_days |-> PyInt(total_person_days, 25, 100),
              women_person_days |-> PyInt(total_person_days, 45, 100),
              total_expenditure |-> total_person_days * 70,      \* 280 rupees
              works_taken_up |-> PyInt(households_employed, 15, 100),
              works_completed |-> PyInt(households_employed, 12, 100),
              avg_days_per_household |-> 40 + n,
              data_source |-> "fresh_live"] >>])

\* get_fresh_district_data, lines 290-297: what the cache holds under the
\* key, else what is generated, which the cache then holds (None included).
\* A result is [district_data_cache, ret].
get_fresh_district_data(cache, ds, district_code, year, month, fault) ==
  LET cache_key == <<district_code, year, month>>
      fresh_data == _generate_fresh_data(ds, district_code, year, month, fault)
  IN  IF cache_key \in DOMAIN cache THEN [district_data_cache |-> cache, ret |-> cache[cache_key]]
      ELSE [district_data_cache |-> (cache_key :> fresh_data) @@ cache, ret |-> fresh_data]

\* str.strip() on the district parameters of the model.
Strip(s) == IF s = " GJ02 " THEN "GJ02" ELSE s

\* The district parameter of a URL; "" also stands for a URL without one.
UrlDistricts == {"", "GJ01", "GJ02", UnknownCode, " GJ02 "}

\* request.referrer: None, or a URL: whether it contains 'district=' and the
\* district parameter of its query ("" when it has none).
Referrers ==
  { None,
    Some([marker |-> FALSE, district |-> ""]),
    Some([marker |-> TRUE, district |-> ""]),
    Some([marker |-> TRUE, district |-> "GJ02"]),
    Some([marker |-> TRUE, district |-> UnknownCode]) }

\* Lines 396-417 of comparison: the URL parameter, else the session, else
\* the referrer, else GJ01.
RequestedDistrict(param, stored, referrer) ==
  LET from_url == Strip(param)
      from_session == IF from_url # "" THEN from_url
                      ELSE IF stored = None THEN "" ELSE stored[1]
      from_referrer == IF from_session # "" THEN from_session
                       ELSE IF referrer # None /\ referrer[1].marker THEN referrer[1].district
                       ELSE ""
  IN  IF from_referrer # "" THEN from_referrer ELSE "GJ01"

\* The record dashboard makes when the fresh data is None, lines 371-384.
DashboardRecord(district_code) ==
  LET base == 5000 + (district_number(district_code) * 1000)
  IN  [households_provided_employment |-> base,
       persons_worked |-> PyInt(base, 18, 10),
       total_person_days |-> PyInt(base, 864, 10),
       total_expenditure |-> base * 6048,                      \* 1.8 * 48 * 280 rupees
       works_taken_up |-> PyInt(base, 15, 100),
       works_completed |-> PyInt(base, 12, 100),
       women_person_days |-> PyInt(base, 3888, 100),
       sc_person_days |-> PyInt(base, 3024, 100),
       st_person_days |-> PyInt(base, 216, 10),
       avg_days_per_household |-> 48]

\* What location_service.detect_district_from_ip can answer.
DetectedCodes == {"GJ01", "GJ02", "GJ33"}

\* The periods of the model's dashboard and API requests; '2024' and '1'
\* are the defaults of the routes.
DashboardPeriods == {<<2024, 1>>}
ApiPeriods == {<<2024, 1>>, <<2024, 12>>, <<2025, 1>>}

\* `python app.py`: the module is loaded, which constructs DatabaseManager()
\* and the services (lines 20, 205, 285, 323), and the __main__ block clears
\* the performance table and lists the districts (lines 515-527).  A store
\* out of reach makes DatabaseManager() raise.  The process is new: it has
\* no connection and an empty cache; the browser keeps its session.
Main ==
  /\ variant = "database_manager"
  /\ \E draw \in RandomDraws, fault \in BOOLEAN :
       LET s == load_initial_data(districts, performance_data, now, draw)
       IN  /\ FaultFree(fault, draw, "low")
           /\ districts' = IF fault THEN districts ELSE s.districts
           /\ performance_data' = IF fault THEN performance_data ELSE EmptyBag
           /\ call' = Called("__main__", [fault |-> fault],
                             IF fault THEN None
                             ELSE Some([districts |-> Cardinality(get_all_districts(s.districts, fault))]),
                             fault)
  /\ open_connections' = 0
  /\ district_data_cache' = << >>
  /\ UNCHANGED <<variant, now, session>>

\* /, lines 326-351.  district_info.get on None raises when neither the
\* detected district nor GJ01 is found.
Index ==
  /\ variant = "database_manager"
  /\ \E detected \in DetectedCodes, fault \in BOOLEAN :
       LET found == get_district_info(districts, detected, fault)
           district_info == IF found # None THEN found ELSE get_district_info(districts, "GJ01", fault)
           detected_district_code == IF found # None THEN detected ELSE "GJ01"
       IN  /\ FaultFree(fault, detected, "GJ01")
           /\ call' = Called("index", [detected |-> detected, fault |-> fault],
                             IF district_info = None THEN None
                             ELSE Some([districts |-> Cardinality(get_all_districts(districts, fault)),
                                        user_location |->
                                          [district_code |-> detected_district_code,
                                           district_name |-> district_info[1].district_name]]),
                             district_info = None)
  /\ UNCHANGED <<variant, districts, performance_data, now, open_connections, session,
                 district_data_cache>>

\* /dashboard, lines 353-390.
Dashboard ==
  /\ variant = "database_manager"
  /\ \E district \in Codes \cup {UnknownCode}, p \in DashboardPeriods, fault \in BOOLEAN :
       LET found == get_district_info(districts, district, fault)
           district_code == IF found # None THEN district ELSE "GJ01"
           district_info == IF found # None THEN found ELSE get_district_info(districts, "GJ01", fault)
           res == get_fresh_district_data(district_data_cache, districts, district_code,
                                          p[1], p[2], fault)
           performance_record == IF res.ret # None THEN res.ret[1].records[1]
                                 ELSE DashboardRecord(district_code)
       IN  /\ district_data_cache' = res.district_data_cache
           /\ call' = Called("dashboard",
                             [district |-> district, year |-> p[1], month |-> p[2], fault |-> fault],
                             Some([district_info |-> district_info,
                                   performance_data |-> performance_record]),
                             FALSE)
  /\ UNCHANGED <<variant, districts, performance_data, now, open_connections, session>>

\* /comparison, lines 392-444.
Comparison ==
  /\ variant = "database_manager"
  /\ \E param \in UrlDistricts, referrer \in Referrers, fault \in BOOLEAN :
       LET requested == RequestedDistrict(param, session, referrer)
           found == get_district_info(districts, requested, fault)
           district_code == IF found # None THEN requested ELSE "GJ01"
           district_info == IF found # None THEN found ELSE get_district_info(districts, "GJ01", fault)
       IN  /\ session' = Some(district_code)
           /\ call' = Called("comparison",
                             [district |-> param, referrer |-> referrer, fault |-> fault],
                             Some([district_info |-> district_info,
                                   comparison_data |->
                                     generate_comparison_data(performance_data, districts, now,
                                                              district_code, fault)]),
                             FALSE)
  /\ UNCHANGED <<variant, districts, performance_data, now, open_connections, district_data_cache>>

\* /api/districts, lines 447-450.
ApiDistricts ==
  /\ variant = "database_manager"
  /\ \E fault \in BOOLEAN :
       call' = Called("api_districts", [fault |-> fault],
                      Some([districts |-> get_all_districts(districts, fault)]), FALSE)
  /\ UNCHANGED <<variant, districts, performance_data, now, open_connections, session,
                 district_data_cache>>

\* /api/performance/<district_code>, lines 452-457.  year and month arrive
\* as text; the periods of the model are those whose text the store matches
\* with the number (neither is '0', which is true as text and false as a
\* number).
ApiPerformance ==
  /\ variant = "database_manager"
  /\ \E code \in Codes \cup {UnknownCode}, p \in ApiPeriods, fault \in BOOLEAN :
       LET res == get_district_performance(performance_data, districts, now, code, p[1], p[2], fault)
       IN  /\ FaultFree(fault, p, <<2024, 1>>)
           /\ performance_data' = res.performance_data
           /\ call' = Called("api_performance",
                             [district_code |-> code, year |-> p[1], month |-> p[2], fault |-> fault],
                             res.ret, FALSE)
  /\ UNCHANGED <<variant, districts, now, open_connections, session, district_data_cache>>

\* /api/comparison/<district_code>, lines 459-463.
ApiComparison ==
  /\ variant = "database_manager"
  /\ \E code \in Codes \cup {UnknownCode}, fault \in BOOLEAN :
       call' = Called("api_comparison", [district_code |-> code, fault |-> fault],
                      Some(generate_comparison_data(performance_data, districts, now, code, fault)),
                      FALSE)
  /\ UNCHANGED <<variant, districts, performance_data, now, open_connections, session,
                 district_data_cache>>

\* /health, lines 491-497 (the timestamp is left out).  jsonify answers
\* with status 200.
health_check ==
  /\ variant = "database_manager"
  /\ \E fault \in BOOLEAN :
       call' = Called("health_check", [fault |-> fault],
                      Some([status_code |-> 200,
                            status |-> "healthy",
                            database |-> "connected",
                            districts_available |-> Cardinality(get_all_districts(districts, fault))]),
                      FALSE)
  /\ UNCHANGED <<variant, districts, performance_data, now, open_connections, session,
                 district_data_cache>>

\* The store as the loaded module finds or makes it: a new one, seeded, or
\* one that holds a registry of its own.
AppInit == Constructed(<< >>, EmptyBag) \/ Constructed(SmallRegistry, EmptyBag)

\* The application: started, started again, and serving its routes, and
\* its store initialised and cleared by hand.
AppNext ==
  \/ Main
  \/ Index
  \/ Dashboard
  \/ Comparison
  \/ ApiDistricts
  \/ ApiPerformance
  \/ ApiComparison
  \/ health_check
  \/ Construct
  \/ ClearPerformanceData
SpecApp == AppInit /\ [][AppNext]_vars
-----------------------------------------------------------------------------
(* Claims.                                                                 *)

\* The distance find_nearest_district of the running variant computes from
\* the query point to district d.
DistanceTo(lat, lon, d) ==
  IF variant = "database_manager"
  THEN calculate_distance(lat, lon, d.latitude[1], d.longitude[1])
  ELSE Models_distance(lat, lon, d.latitude[1], d.longitude[1])

HasCentroid(d) == d.latitude # NULL /\ d.longitude # NULL

\* C1: when the store answers, the district find_nearest_district returns is
\* at minimal distance from the query point among the districts that have
\* both coordinates: no district with a centroid is strictly closer.
C1_NearestIsMinimal ==
  (call.op = "find_nearest_district" /\ ~call.args.fault /\ call.ret # None) =>
    \A i \in 1..Len(districts) :
      HasCentroid(districts[i]) =>
        ~(DistanceTo(call.args.lat, call.args.lon, districts[i])
            < DistanceTo(call.args.lat, call.args.lon, call.ret[1]))

\* C2: when the store answers, find_nearest_district returns None if and
\* only if no district has both latitude and longitude non-null; a centroid
\* on the equator or on the prime meridian counts as a centroid.
C2_NotFoundIffNoCentroid ==
  (call.op = "find_nearest_district" /\ ~call.args.fault) =>
    (call.ret = None <=> ~\E i \in 1..Len(districts) : HasCentroid(districts[i]))

HasKey(data) == {"district_code", "year", "month"} \subseteq DOMAIN data

\* C3: a get_performance_data that directly follows a save_performance_data
\* of a record with a key, on that key, returns the values the record gave
\* for every metric field and for data_source, whatever the key, year 0 and
\* month 0 included (no store failure in either call).
C3_SaveThenGetRoundTrip ==
  [][ ( /\ call.op = "save_performance_data" /\ ~call.args.fault /\ HasKey(call.args.data)
        /\ call'.op = "get_performance_data" /\ ~call'.args.fault
        /\ call'.args.district_code = call.args.data.district_code
        /\ call'.args.year = Some(call.args.data.year)
        /\ call'.args.month = Some(call.args.data.month) )
      => ( /\ call'.ret # None
           /\ \A f \in (MetricFields \cup {"data_source"}) \cap DOMAIN call.args.data :
                call'.ret[1][f] = call.args.data[f] ) ]_vars

\* C4: a performance request repeated with the same district_code, year and
\* month returns the record the first one returned, when between the two
\* only calendar time has passed (no save, no store failure).
C4_RequestIdempotent ==
  [][ ( /\ call.op = "get_district_performance" /\ ~call.args.fault
        /\ call'.op = "get_district_performance" /\ call'.args = call.args )
      => call'.ret = call.ret ]_vars

Registered(code) == \E i \in 1..Len(districts) : districts[i].district_code = code

\* C5: a performance request for a registered district and a (year, month)
\* under which the store holds no record leaves in the store a record of
\* exactly that key, equal to the record it returned (no store failure).
C5_SynthesizedIsPersisted ==
  [][ ( /\ call'.op = "get_district_performance" /\ ~call'.args.fault
        /\ Registered(call'.args.district_code)
        /\ ~\E r \in DOMAIN performance_data :
              KeyOf(r) = <<call'.args.district_code, call'.args.year, call'.args.month>> )
      => ( /\ call'.ret # None
           /\ \E r \in DOMAIN performance_data' :
                /\ KeyOf(r) = <<call'.args.district_code, call'.args.year, call'.args.month>>
                /\ r = call'.ret[1].records[1] ) ]_vars

\* C6: get_performance_data(district_code, year, month) is an exact key
\* lookup: it returns the stored record of that key when there is one and
\* None when there is none, never another key's record nor made-up values
\* (no store failure).
C6_ExactKeyLookup ==
  ( /\ call.op = "get_performance_data" /\ ~call.args.fault
    /\ call.args.year # None /\ call.args.month # None ) =>
    LET stored == {r \in DOMAIN performance_data :
                     KeyOf(r) = <<call.args.district_code, call.args.year[1], call.args.month[1]>>}
    IN  IF stored = {} THEN call.ret = None
        ELSE call.ret # None /\ call.ret[1] \in stored

RowsOf(code) == {r \in DOMAIN performance_data : r.district_code = code}

\* The call is a latest lookup that the store answered.
LatestLookup ==
  /\ call.op = "get_performance_data" /\ ~call.args.fault
  /\ call.args.year = None /\ call.args.month = None

\* C7: for a district with at least one stored record, get_performance_data
\* without year and month returns, when the store answers, that district's
\* record whose (year, month) is lexicographically greatest, year first.
C7_LatestIsLexicographicMax ==
  (LatestLookup /\ RowsOf(call.args.district_code) # {}) =>
    /\ call.ret # None
    /\ call.ret[1] \in RowsOf(call.args.district_code)
    /\ \A s \in RowsOf(call.args.district_code) :
         \/ s.year < call.ret[1].year
         \/ (s.year = call.ret[1].year /\ s.month <= call.ret[1].month)

\* C7's case: a latest lookup over a district holding a record of an earlier
\* year and a later month than the one returned.
C7_Witness ==
  /\ LatestLookup
  /\ call.ret # None
  /\ \E s \in RowsOf(call.args.district_code) :
       s.year < call.ret[1].year /\ s.month > call.ret[1].month

\* C8: the store never holds two records of the same (district_code, year,
\* month), whatever was saved, records without year or month included.
C8_OneRecordPerKey ==
  /\ \A r \in DOMAIN performance_data : performance_data[r] = 1
  /\ \A r, s \in DOMAIN performance_data : KeyOf(r) = KeyOf(s) => r = s

\* C9: every numeric field of every stored record is non-negative, and a
\* field the saved record left out is stored as zero.
C9_NonNegativeDefaultZero ==
  /\ \A r \in DOMAIN performance_data : \A f \in MetricFields : r[f] >= 0
  /\ ( /\ call.op = "save_performance_data" /\ call.ret = Some(PyBool(TRUE)) ) =>
       \E r \in DOMAIN performance_data :
         /\ KeyOf(r) = <<call.args.data.district_code, call.args.data.year, call.args.data.month>>
         /\ \A f \in MetricFields \ DOMAIN call.args.data : r[f] = 0

\* C10: save_performance_data never raises; it returns True or False, and a
\* call that returns False leaves the store as it was.
C10_SaveNeverRaises ==
  [][ call'.op = "save_performance_data" =>
        /\ ~call'.raised
        /\ call'.ret \in {Some(PyBool(TRUE)), Some(PyBool(FALSE))}
        /\ (call'.ret = Some(PyBool(FALSE)) => performance_data' = performance_data) ]_vars


\* The call of this step is an initialisation that ran to its end.
Initialised == call'.op \in {"__init__", "seed_demo"} /\ ~call'.raised

\* C11: initialising a store that is already populated, by constructing
\* DatabaseManager again or by calling seed_demo again, leaves the districts
\* table and the performance table exactly as they were; and the registry
\* of a DatabaseManager, from its first construction on, is exactly the 33
\* districts of the reference list.
C11_SeedingIdempotent ==
  [][ /\ (Initialised /\ Len(districts) > 0) =>
           (districts' = districts /\ performance_data' = performance_data)
      /\ variant \in {"database_manager", "models"} =>
           (Len(districts) = 33 /\ districts = gujarat_districts /\ districts' = gujarat_districts) ]_vars

\* C11's case: DatabaseManager constructed again over a store whose registry
\* is filled and whose sample rows were deleted and partly written anew.
C11_Witness ==
  /\ call.op = "__init__" /\ ~call.raised
  /\ variant = "database_manager"
  /\ Len(districts) = 33
  /\ BagCardinality(performance_data) = 1

\* The last call is op, answered by the store.
Answered(op) == call.op = op /\ ~call.args.fault /\ ~call.raised

\* C12: for a registered district the rank calculate_district_rank returns,
\* and the district_rank of a comparison result, lies between 1 and the
\* total_districts returned with it.
C12_RankWithinTotal ==
  /\ (call.op = "calculate_district_rank" /\ Registered(call.args.district_code)) =>
       (1 <= call.ret[1].rank /\ call.ret[1].rank <= call.ret[1].total_districts)
  /\ (call.op \in {"get_comparison_data", "generate_comparison_data"}
        /\ Registered(call.args.district_code)) =>
       (1 <= call.ret[1].district_rank /\ call.ret[1].district_rank <= call.ret[1].total_districts)

\* No two districts hold records with the same households_provided_employment.
NoHouseholdTies ==
  \A r, s \in DOMAIN performance_data :
    r.district_code # s.district_code =>
      r.households_provided_employment # s.households_provided_employment

\* The registered districts to which calculate_district_rank gives rank 1.
RankedFirst ==
  {i \in 1..Len(districts) :
     \E rk \in calculate_district_rank(performance_data, districts, districts[i].district_code, FALSE) :
       rk[1] = 1}

\* C13: when a registered district holds a record and no two districts tie
\* on households_provided_employment, calculate_district_rank gives rank 1
\* to exactly one registered district.
C13_ExactlyOneRankOne ==
  ( /\ Answered("calculate_district_rank")
    /\ \E r \in DOMAIN performance_data : Registered(r.district_code)
    /\ NoHouseholdTies ) =>
    Cardinality(RankedFirst) = 1

\* The latest record of each district: the one of the greatest (year, month).
LatestRecords ==
  {r \in DOMAIN performance_data :
     \A s \in RowsOf(r.district_code) :
       s.year < r.year \/ (s.year = r.year /\ s.month <= r.month)}

\* C14: for a district with stored records calculate_district_rank returns
\* the position of the district in the list of every district's latest
\* record sorted by households_provided_employment, greatest first (any of
\* the positions its record can take among records of equal households),
\* also when the district's records span a year boundary.
C14_RankIsPositionAmongLatest ==
  (Answered("calculate_district_rank") /\ RowsOf(call.args.district_code) # {}) =>
    \E r \in LatestRecords :
      /\ r.district_code = call.args.district_code
      /\ call.ret[1].rank >
           Cardinality({s \in LatestRecords : s.households_provided_employment
                                                > r.households_provided_employment})
      /\ call.ret[1].rank <=
           Cardinality({s \in LatestRecords : s.households_provided_employment
                                                >= r.households_provided_employment})

\* C15: for a district code without a performance record, or outside the
\* registry, calculate_district_rank returns (total_districts,
\* total_districts) with total_districts the number of districts in the
\* registry, on every call, those on which the store fails included.
C15_RankDefaultsToWorst ==
  ( /\ call.op = "calculate_district_rank"
    /\ (RowsOf(call.args.district_code) = {} \/ ~Registered(call.args.district_code)) ) =>
    call.ret = Some([rank |-> Len(districts), total_districts |-> Len(districts)])

\* Absolute value.
Abs(x) == IF x < 0 THEN -x ELSE x

\* C16: the state average of a comparison is, for each numeric field, the
\* arithmetic mean (to the nearest integer) of that field over exactly the
\* districts that hold a record for the period of the comparison, the
\* period of the district record it shows.
C16_StateAverageIsPeriodMean ==
  Answered("get_comparison_data") =>
    LET shown == call.ret[1].district
        rows == {r \in DOMAIN performance_data : r.year = shown.year /\ r.month = shown.month}
    IN  rows # {} =>
          \A f \in ComparisonMetrics :
            2 * Abs(call.ret[1].state_avg[f] * Cardinality(rows) - SumOver([r \in rows |-> r[f]], rows))
              <= Cardinality(rows)


\* The rows calculate_state_averages averages: those of the current month.
CurrentRows == {r \in DOMAIN performance_data : r.year = now[1] /\ r.month = now[2]}

\* The ratio num * 100 / den of each row in millionths of a percent, 0 for
\* a row whose denominator is 0.
RatioOrZero(rows, num, den) ==
  [r \in rows |-> IF r[den] = 0 THEN 0 ELSE PercentMicro(r[num], r[den])]

\* tenths (a rate in tenths of a percent) is the sum (of ratios in
\* millionths) divided by count, to the nearest tenth.
IsRoundedMean(tenths, sum, count) ==
  2 * Abs(tenths * 100000 * count - sum) <= 100000 * count + 2 * count

C18_PercentDelta ==
  call.op \in {"get_comparison_data", "generate_comparison_data"} =>
    /\ ~call.raised
    /\ call.ret # None
    /\ \A metric \in ComparisonMetrics :
         LET x == call.ret[1].district[metric]
             s == call.ret[1].state_avg[metric]
             percent == call.ret[1].comparison_percentages[metric]
         IN  /\ s = 0 => percent = 0
             /\ s > 0 => 2 * Abs(percent * s - 1000 * (x - s)) <= s

\* A comparison in which one state value is 0 against a district value that
\* is not, and another metric's delta is not a whole tenth.
C18_Witness ==
  /\ Answered("get_comparison_data")
  /\ call.ret[1].state_avg.persons_worked = 0
  /\ call.ret[1].district.persons_worked > 0
  /\ call.ret[1].comparison_percentages.persons_worked = 0
  /\ \E metric \in ComparisonMetrics :
       LET x == call.ret[1].district[metric]
           s == call.ret[1].state_avg[metric]
       IN  s > 0 /\ (1000 * (x - s)) % s # 0

ComparisonKeys ==
  {"district", "state_avg", "district_rank", "total_districts", "comparison_percentages"}

\* C19: get_comparison_data never fails outright: whatever the district
\* code, the store content and the store's condition, it raises nothing and
\* returns a result, not None, that holds the keys district, state_avg,
\* district_rank, total_districts and comparison_percentages.
C19_ComparisonNeverFails ==
  call.op = "get_comparison_data" =>
    /\ ~call.raised
    /\ call.ret # None
    /\ ComparisonKeys \subseteq DOMAIN call.ret[1]

\* The provenance tags of records the program makes up itself.
SyntheticTags == {"default", "mock", "unique_mock", "unique_fallback"}

HouseholdsOf(code) ==
  LET i == CHOOSE i \in 1..Len(districts) : districts[i].district_code = code
  IN  districts[i].total_households

\* C20: a performance request for a registered district with H households
\* and a (year, month) under which the store holds no record returns a
\* record whose households_provided_employment is floor(0.12 * H) and whose
\* provenance tag is a synthetic one (no store failure).
C20_SynthesizedFromHouseholds ==
  [][ ( /\ call'.op = "get_district_performance" /\ ~call'.args.fault
        /\ Registered(call'.args.district_code)
        /\ ~\E r \in DOMAIN performance_data :
              KeyOf(r) = <<call'.args.district_code, call'.args.year, call'.args.month>> )
      => ( /\ call'.ret # None
           /\ call'.ret[1].records[1].households_provided_employment
                = (12 * HouseholdsOf(call'.args.district_code)) \div 100
           /\ call'.ret[1].records[1].data_source \in SyntheticTags ) ]_vars

\* C21: every operation releases the connection it opened on every exit
\* path, so no operation leaves more connections open than it found,
\* whether it succeeded or a statement of it failed.
C21_ConnectionsReleased ==
  [][open_connections' <= open_connections]_vars

\* C22: when several districts are at the same minimal distance from the
\* query point, find_nearest_district returns the one that comes first in
\* district code order: no district the scan takes into account, at the
\* distance of the one returned, has a smaller code.
C22_TieGoesToSmallestCode ==
  (call.op = "find_nearest_district" /\ ~call.args.fault /\ call.ret # None) =>
    \A i \in 1..Len(districts) :
      ( /\ Truthy(districts[i].latitude) /\ Truthy(districts[i].longitude)
        /\ DistanceTo(call.args.lat, call.args.lon, districts[i])
             = DistanceTo(call.args.lat, call.args.lon, call.ret[1]) )
      => district_number(call.ret[1].district_code) <= district_number(districts[i].district_code)

\* C23: in every reachable state every performance record's district_code
\* is the code of a district of the registry.
C23_RecordsReferenceRegisteredDistricts ==
  \A r \in DOMAIN performance_data : Registered(r.district_code)

\* The keys (district_code, year, month) under which a table holds a record.
PerformanceKeys(table) == {KeyOf(r) : r \in DOMAIN table}

\* C24: no operation other than clear_existing_performance_data takes a key
\* (district_code, year, month) out of the performance table: reads,
\* comparison, rank, state averages, initialisation over the existing store
\* and the upsert of save_performance_data keep every key the table held.
C24_KeysNeverShrink ==
  [][ call'.op # "clear_existing_performance_data"
        => PerformanceKeys(performance_data) \subseteq PerformanceKeys(performance_data') ]_vars

\* DatabaseManager() has run again over a store whose table holds records of
\* two keys or more, and has ended without an exception.
C24_Witness ==
  /\ call.op = "__init__" /\ ~call.raised
  /\ Cardinality(PerformanceKeys(performance_data)) >= 2

\* C28: the record a performance request for (district_code, year, month)
\* returns carries that district_code, year and month, whether it was read
\* from the store or synthesized, whatever the calendar date.
C28_RecordCarriesRequestedKey ==
  (call.op = "get_district_performance" /\ call.ret # None) =>
    KeyOf(call.ret[1].records[1]) = <<call.args.district_code, call.args.year, call.args.month>>

\* C27: in every result of get_comparison_data, the result it gives after
\* an internal error included, each entry of comparison_percentages is the
\* percent delta of the district value and the state_avg value that the
\* same result holds for that metric.
C27_PercentagesMatchResult ==
  (call.op = "get_comparison_data" /\ call.ret # None) =>
    \A metric \in ComparisonMetrics :
      LET result == call.ret[1]
      IN  IF result.state_avg[metric] > 0
          THEN /\ metric \in DOMAIN result.district
               /\ result.comparison_percentages[metric]
                    = PercentDelta(result.district[metric], result.state_avg[metric])
          ELSE result.comparison_percentages[metric] = 0

\* C26: when the store cannot be reached, /health answers with a failure
\* status (503) and does not report the store as connected; it reports
\* 'healthy' and 'connected' only when the store answered.
C26_HealthReportsStore ==
  call.op = "health_check" =>
    /\ call.args.fault =>
         (call.ret[1].status_code = 503 /\ call.ret[1].database # "connected")
    /\ (call.ret[1].status = "healthy" \/ call.ret[1].database = "connected") => ~call.args.fault

\* The routes of the application C29 names.
Routes ==
  {"index", "dashboard", "comparison", "api_performance", "api_comparison", "api_districts",
   "health_check"}

C30_SessionHoldsShownDistrict ==
  [][ (call'.op = "comparison" /\ Registered("GJ01")) =>
        LET url == Strip(call'.args.district)
            remembered == IF session = None THEN "" ELSE session[1]
            referred == IF call'.args.referrer = None THEN ""
                        ELSE call'.args.referrer[1].district
            taken == IF url # "" THEN url
                     ELSE IF remembered # "" THEN remembered
                     ELSE IF referred # "" THEN referred
                     ELSE "GJ01"
            shown == IF Registered(taken) THEN taken ELSE "GJ01"
        IN  /\ session' = Some(shown)
            /\ call'.ret[1].comparison_data.district.district_code = shown ]_vars

\* No two district records hold the same district_code.
UniqueCodes ==
  \A i, j \in 1..Len(districts) :
    districts[i].district_code = districts[j].district_code => i = j

\* C25: once the registry is populated nothing changes it: no operation of
\* DatabaseManager and no route of the application, the start of the
\* application, the initialisation over the existing store and the bulk
\* clear included, adds, removes or changes a district record; and district
\* codes stay unique.
C25_RegistryReadOnly ==
  /\ []UniqueCodes
  /\ [][Len(districts) > 0 => districts' = districts]_vars

\* The application has been started again over a store that held a registry
\* of two districts, and the registry still holds those two.
C25_Witness ==
  /\ call.op = "__main__" /\ ~call.raised
  /\ Len(districts) = 2
====
